---- MODULE Spec2Model ----
(***************************************************************************)
(* A model of the Meson front end: the interpreter's project structure     *)
(* (targets, global arguments, subdirs, subprojects), its variable store,  *)
(* the wrap resolver and the option store.                                 *)
(***************************************************************************)
EXTENDS Integers, Sequences, FiniteSets, TLC

VARIABLES
    \* ---- interpreter: project structure (src/interpreter.py) ----
    frames,        \* stack of running Interpreter instances, root first
    targets,       \* build.targets: key -> target
    global_args,   \* build.global_args for one language
    subprojects,   \* the subprojects dict shared by every Interpreter
    resolve_calls, \* per name, the wrap.Resolver(...).resolve(name) calls made
    interpreters,  \* per name, the Interpreter objects created for it
    returned,      \* what the last function call returned
    projects,      \* build.projects: the subproject names whose project() ran
    err,           \* the exception that ended the run, or NoErr
    \* ---- interpreter: values (src/interpreter.py) ----
    variables,     \* Interpreter.variables: name -> value
    heap,          \* the list objects values refer to
    confs,         \* the ConfigurationDataHolder objects
    \* ---- wrap resolver (src/wrap.py) ----
    wpc,           \* where Resolver.resolve stands
    package,       \* the PackageDefinition read by the running resolve
    files,         \* packagecache/<source_filename>, packagecache/<patch_filename>
    target_dir,    \* subprojects/<directory>: absent, or the archives unpacked into it
    srcdata,       \* download's srcdata
    pdata,         \* download's pdata
    files0,        \* files when the running resolve started
    target_dir0,   \* target_dir when the running resolve started
    \* ---- wrap resolver, wraps of type git (src/wrap.py) ----
    gpc,           \* where Resolver.get_git stands
    revision,      \* p.get('revision') of the running get_git
    checkoutdir,   \* subprojects/<directory>: whether it exists, what is checked out
    git_cmds,      \* the git commands the running get_git ran, with their outcome
    \* ---- option store (src/mesonbuild/options.py) ----
    is_cross,                 \* OptionStore.is_cross
    options,                  \* OptionStore.options: key -> option object
    project_options,          \* OptionStore.project_options
    pending_project_options,  \* OptionStore.pending_project_options
    augments,                 \* OptionStore.augments: key string -> value string
    cmd_line_options,         \* the -D options handed to the top level project call
    oerr,                     \* the exception the last store operation raised
    oresult,                  \* the key of the object the last lookup returned
    ovalue,                   \* what get_value_for returned, when it was the last call
    deprecations,             \* the mlog.deprecation calls made for the store, in order
    \* ---- option interpreter (src/mesonbuild/optinterpreter.py) ----
    oi_pc,                \* whether the OptionInterpreter is constructed, has processed
    oi_subproject,        \* OptionInterpreter.subproject
    oi_command_line,      \* the command_line_options the constructor was given
    oi_cmd_line_options,  \* OptionInterpreter.cmd_line_options: key -> value
    oi_options,           \* OptionInterpreter.options: key -> value of the option
    oi_warnings,          \* what mlog.warning was called with
    oi_err,               \* the OptionException raised, or NoOptionException
    \* ---- object extraction (src/interpreter.py) ----
    ex_subdir,            \* Interpreter.subdir of the interpreter that calls extract_objects
    ex_target_subdir,     \* buildtarget.subdir of the target the call is made on
    ex_unity,             \* environment.coredata.unity
    ex_result,            \* the exception the call raised, or that it extracted
    \* ---- cross file (src/environment.py) ----
    cross_file,           \* the file CrossBuildInfo was constructed from
    cross_config,         \* CrossBuildInfo.config: the sections read
    cross_result,         \* the exception the constructor raised, or that it returned
    \* ---- compiler detection (src/interpreter.py, src/environment.py) ----
    need_cross_compiler,  \* is_cross_build() and cross_info.need_cross_compiler()
    compilers,            \* coredata.compilers: language -> compiler
    cross_compilers,      \* coredata.cross_compilers: language -> compiler
    requests,             \* per language, the times a call of this run named it
    detections,           \* per (language, is_cross), the detect calls of this run
    build_compilers,      \* the compilers handed to build.add_compiler
    lang_err,             \* the exception that ended the run, or "none"
    \* ---- configured file (src/mesonlib.py) ----
    cf_pc,                \* where do_conf_file stands
    cf_dst,               \* the file dst
    cf_dst_tmp,           \* the file dst~
    cf_result,            \* do_conf_file's result, the generated lines
    cf_dst0,              \* the file dst when the running do_conf_file started
    cf_replaced,          \* whether the running do_conf_file called os.replace
    \* ---- custom target command (src/mesonbuild/backend/backends.py) ----
    ct_command,           \* target.command of the custom target evaluated last
    ct_cmd,               \* the cmd eval_custom_target_command returned
    ct_err,               \* the exception it raised, or "none"
    \* ---- addition (src/interpreter.py) ----
    ar_left,              \* l of the evaluate_arithmeticstatement made last
    ar_right,             \* r
    ar_result,            \* what it returned, or the exception it raised
    \* ---- do_replacement (src/mesonlib.py) ----
    dr_pc,                \* where the call of do_replacement stands
    dr_line,              \* line
    dr_confdata,          \* the values of confdata, by name
    dr_match,             \* match
    \* ---- the build file of subdir() (src/interpreter.py) ----
    sd_subdir,            \* self.subdir
    sd_prev,              \* prev_subdir of the func_subdir calls under evaluation
    sd_visited,           \* self.visited_subdirs
    sd_mkdir,             \* the directory given to os.mkdir last
    sd_opened,            \* absname of the build file opened last
    sd_err                \* the exception that ended the run, or "none"

ivars == <<frames, targets, global_args, subprojects, resolve_calls, interpreters, returned,
          projects>>
vvars == <<variables, heap, confs>>
wvars == <<wpc, package, files, target_dir, srcdata, pdata, files0, target_dir0>>

gvars == <<gpc, revision, checkoutdir, git_cmds>>
ovars == <<is_cross, options, project_options, pending_project_options, augments,
          cmd_line_options, oerr, oresult, ovalue, deprecations>>
cvars == <<augments, cmd_line_options>>
oivars == <<oi_pc, oi_subproject, oi_command_line, oi_cmd_line_options, oi_options,
           oi_warnings, oi_err>>
xvars == <<ex_subdir, ex_target_subdir, ex_unity, ex_result>>
cbvars == <<cross_file, cross_config, cross_result>>
cfvars == <<cf_pc, cf_dst, cf_dst_tmp, cf_result, cf_dst0, cf_replaced>>
ctvars == <<ct_command, ct_cmd, ct_err>>
sdvars == <<sd_subdir, sd_prev, sd_visited, sd_mkdir, sd_opened, sd_err>>
drvars == <<dr_pc, dr_line, dr_confdata, dr_match>>
arvars == <<ar_left, ar_right, ar_result>>
lvars == <<need_cross_compiler, compilers, cross_compilers, requests, detections, build_compilers,
          lang_err>>

\* what the statements on project structure, the statements on values, the
\* resolver and the option store leave alone
not_interp == <<vvars, wvars, gvars, ovars, oivars, xvars, cbvars, lvars, cfvars, ctvars, arvars, drvars, sdvars>>
not_values == <<ivars, wvars, gvars, ovars, oivars, xvars, cbvars, lvars, cfvars, ctvars, arvars, drvars, sdvars>>
not_wrap == <<ivars, err, vvars, gvars, ovars, oivars, xvars, cbvars, lvars, cfvars, ctvars, arvars, drvars, sdvars>>
not_git == <<ivars, err, vvars, wvars, ovars, oivars, xvars, cbvars, lvars, cfvars, ctvars, arvars, drvars, sdvars>>
not_options == <<ivars, err, vvars, wvars, gvars, oivars, xvars, cbvars, lvars, cfvars, ctvars, arvars, drvars, sdvars>>
not_optinterp == <<ivars, err, vvars, wvars, gvars, ovars, xvars, cbvars, lvars, cfvars, ctvars, arvars, drvars, sdvars>>
not_extract == <<ivars, err, vvars, wvars, gvars, ovars, oivars, cbvars, lvars, cfvars, ctvars, arvars, drvars, sdvars>>
not_cross == <<ivars, err, vvars, wvars, gvars, ovars, oivars, xvars, lvars, cfvars, ctvars, arvars, drvars, sdvars>>
not_languages == <<ivars, err, vvars, wvars, gvars, ovars, oivars, xvars, cbvars, cfvars, ctvars, arvars, drvars, sdvars>>
not_conffile == <<ivars, err, vvars, wvars, gvars, ovars, oivars, xvars, cbvars, lvars, ctvars, arvars, drvars, sdvars>>
not_customtarget ==
    <<ivars, err, vvars, wvars, gvars, ovars, oivars, xvars, cbvars, lvars, cfvars, arvars,
      drvars, sdvars>>
not_arithmetic ==
    <<ivars, err, vvars, wvars, gvars, ovars, oivars, xvars, cbvars, lvars, cfvars, ctvars,
      drvars, sdvars>>
not_replacement ==
    <<ivars, err, vvars, wvars, gvars, ovars, oivars, xvars, cbvars, lvars, cfvars, ctvars,
      arvars, sdvars>>
not_subdirpath ==
    <<ivars, err, vvars, wvars, gvars, ovars, oivars, xvars, cbvars, lvars, cfvars, ctvars,
      arvars, drvars>>

vars == <<frames, targets, global_args, subprojects, resolve_calls, interpreters, returned,
          projects, err, variables, heap, confs,
          wpc, package, files, target_dir, srcdata, pdata, files0, target_dir0,
          gpc, revision, checkoutdir, git_cmds,
          is_cross, options, project_options, pending_project_options, augments,
          cmd_line_options, oerr, oresult, ovalue, deprecations,
          oi_pc, oi_subproject, oi_command_line, oi_cmd_line_options, oi_options,
          oi_warnings, oi_err,
          ex_subdir, ex_target_subdir, ex_unity, ex_result,
          cross_file, cross_config, cross_result,
          need_cross_compiler, compilers, cross_compilers, requests, detections,
          build_compilers, lang_err,
          cf_pc, cf_dst, cf_dst_tmp, cf_result, cf_dst0, cf_replaced,
          ct_command, ct_cmd, ct_err,
          ar_left, ar_right, ar_result,
          dr_pc, dr_line, dr_confdata, dr_match,
          sd_subdir, sd_prev, sd_visited, sd_mkdir, sd_opened, sd_err>>

\* ------------------------------------------------------------------------
\* Bounds
\* ------------------------------------------------------------------------
MaxTargets == 2
MaxGlobalArgs == 1
MaxHeap == 2
MaxListLen == 2
MaxConfs == 2
MaxDataLen == 2
MaxOptions == 2
MaxLoads == 2
MaxNesting == 2
MaxPrefixLen == 3
MaxCmdLine == 3
MaxDeprecations == 2
MaxLanguages == 2
MaxRequests == 2
MaxLines == 2
MaxArgLen == 2
MaxCmdArgs == 2
MaxLineLen == 3
MaxSubdirLen == 2
MaxSubdirCalls == 3
MaxStatements == 2

\* ------------------------------------------------------------------------
\* Interpreter: project structure
\* ------------------------------------------------------------------------
subproject_dir == "subprojects"

SubprojectNames == {"a", "b"}
TargetNames == {"x-gdbus", "all"}
\* args[0] of a gnome module method
ModuleArgs == {"x", "all"}
forbidden_target_names == {"all", "clean", "test", "install", "build.ninja", "PHONY"}
SubdirArgs == {<<"d">>, <<"..">>}
\* further spellings: the directory itself, and a directory below subprojects/
\* that is no subproject
DirArgs == SubdirArgs \cup {<<".">>, <<subproject_dir, "e">>}
GlobalArgValues == {<<"-DX">>}
BuildTypes == {"exe"}
\* the directories of the source tree that hold a meson.build
BuildFiles ==
    {<<>>, <<"d">>} \cup {<<subproject_dir, n>> : n \in SubprojectNames}
    \cup {<<subproject_dir, n, "d">> : n \in SubprojectNames}
    \cup {<<subproject_dir, "e">>}
CustomTypes == {"cus"}
\* len(args) of a project() call
ProjectArgCounts == {1, 2}

\* the None a function without a result returns, and the SubprojectHolder
\* wrapping the i-th Interpreter created for a name
None == [t |-> "None", s |-> "", n |-> 0]
SubprojectHolder(name, i) == [t |-> "SubprojectHolder", s |-> name, n |-> i]

NoErr == [kind |-> "none", msg |-> "", path |-> <<>>]
Raise(kind, msg) == [kind |-> kind, msg |-> msg, path |-> <<>>]

Top == frames[Len(frames)]
SetTop(f) == [frames EXCEPT ![Len(frames)] = f]

Running == err = NoErr

\* Interpreter.sanity_check_ast: the first statement of a project's build
\* file is its project() call, so any other statement runs after it
Evaluating == Running /\ Top.subproject \in projects

InSeq(x, s) == \E i \in 1..Len(s) : s[i] = x

\* the directory a path names: os.path.join keeps a "." segment in the
\* string, the file system ignores it
normpath(p) == SelectSeq(p, LAMBDA seg : seg # ".")

\* the directory of the build file an interpreter was constructed on
project_root(f) == IF f.subproject = "" THEN <<>> ELSE <<subproject_dir, f.subproject>>

\* Interpreter.__init__: the state of a freshly constructed interpreter;
\* evaluated counts, per directory, the evaluate_codeblock runs on its
\* build file (run() is the first)
NewInterpreter(subproject, subdir) ==
    [subproject |-> subproject,
     subdir |-> subdir,
     prev |-> <<>>,
     global_args_frozen |-> FALSE,
     subproject_stack |-> <<>>,
     visited_subdirs |-> {},
     evaluated |-> [d \in BuildFiles |-> IF d = subdir THEN 1 ELSE 0]]

\* the id of a target: a function of (name, target_type, subdir)
get_id(t) == <<t.name, t.type, t.subdir>>

NewTarget(name, type) ==
    [name |-> name, type |-> type, subdir |-> Top.subdir,
     subproject |-> Top.subproject]

Insert(map, key, t) ==
    [k \in DOMAIN map \cup {key} |-> IF k = key THEN t ELSE map[k]]

\* an add_target without the test of lines 1675-1677
add_target_err_unreserved(name, tobj) ==
    IF get_id(tobj) \in DOMAIN targets
    THEN Raise("InvalidCode", "Tried to create target, but a target of that name already exists")
    ELSE NoErr

\* Interpreter.add_target: the error it raises, or NoErr
add_target_err(name, tobj) ==
    IF name \in forbidden_target_names
    THEN Raise("InvalidArguments", "Target name is reserved")
    ELSE IF get_id(tobj) \in DOMAIN targets
         THEN Raise("InvalidCode", "Tried to create target, but a target of that name already exists")
         ELSE NoErr

InitInterp ==
    /\ frames = <<NewInterpreter("", <<>>)>>
    /\ targets = <<>>
    /\ global_args = <<>>
    /\ subprojects = {}
    /\ resolve_calls = [n \in SubprojectNames |-> 0]
    /\ interpreters = [n \in SubprojectNames |-> 0]
    /\ returned = None
    /\ projects = {}
    /\ err = NoErr

\* a func_project without the test of lines 1224-1225
func_project_err_nosecond(nargs, detected) ==
    IF nargs < 2
    THEN Raise("InvalidArguments", "Not enough arguments to project()")
    ELSE IF ~detected
    THEN Raise("InterpreterException", "Unknown compiler")
    ELSE NoErr

\* Interpreter.func_project: nargs is len(args), detected whether
\* add_languages found a compiler for every language
func_project_err(nargs, detected) ==
    IF nargs < 2
    THEN Raise("InvalidArguments", "Not enough arguments to project()")
    ELSE IF Top.subproject \in projects
    THEN Raise("InvalidCode", "Second call to project()")
    ELSE IF ~detected
    THEN Raise("InterpreterException", "Unknown compiler")
    ELSE NoErr

func_project(nargs, detected) ==
    /\ Running
    /\ LET e == func_project_err(nargs, detected)
       IN /\ err' = e
          /\ projects' = IF nargs < 2 THEN projects ELSE projects \cup {Top.subproject}
    /\ returned' = None
    /\ UNCHANGED <<frames, targets, global_args, subprojects, resolve_calls, interpreters>>
    /\ UNCHANGED not_interp

\* a build_target that left global_args_frozen alone
build_target_nofreeze(e) == Top.global_args_frozen

\* Interpreter.build_target line 1724: the flag after the call ended with e
build_target_frozen(e) == IF e = NoErr THEN TRUE ELSE Top.global_args_frozen

\* Interpreter.build_target, reached from func_executable, func_static_lib,
\* func_shared_lib, func_jar and func_build_target

build_target(name, type) ==
    /\ Evaluating
    /\ Cardinality(DOMAIN targets) < MaxTargets
    /\ LET t == NewTarget(name, type)
           e == add_target_err(name, t)
       IN /\ err' = e
          /\ targets' = IF e = NoErr THEN Insert(targets, get_id(t), t) ELSE targets
          /\ frames' = SetTop([Top EXCEPT !.global_args_frozen = build_target_frozen(e)])
    /\ UNCHANGED <<global_args, subprojects>>
    /\ returned' = None
    /\ UNCHANGED <<resolve_calls, interpreters, projects>>
    /\ UNCHANGED not_interp

\* func_custom_target (also the tail of func_vcs_tag) and func_run_target
func_custom_target(name, type) ==
    /\ Evaluating
    /\ Cardinality(DOMAIN targets) < MaxTargets
    /\ LET t == NewTarget(name, type)
           e == add_target_err(name, t)
       IN /\ err' = e
          /\ targets' = IF e = NoErr THEN Insert(targets, get_id(t), t) ELSE targets
    /\ UNCHANGED <<frames, global_args, subprojects>>
    /\ returned' = None
    /\ UNCHANGED <<resolve_calls, interpreters, projects>>
    /\ UNCHANGED not_interp

\* Interpreter.module_method_callback over the list of values a module
\* method returned: each target is stored under its NAME
RECURSIVE callback_targets(_, _)
callback_targets(map, vs) ==
    IF vs = <<>> THEN map
    ELSE IF <<vs[1].name>> \in DOMAIN map THEN map
         ELSE callback_targets(Insert(map, <<vs[1].name>>, vs[1]), Tail(vs))

RECURSIVE callback_err(_, _)
callback_err(map, vs) ==
    IF vs = <<>> THEN NoErr
    ELSE IF <<vs[1].name>> \in DOMAIN map
         THEN Raise("InterpreterException", "Tried to create target which already exists")
         ELSE callback_err(Insert(map, <<vs[1].name>>, vs[1]), Tail(vs))

module_method_callback(invalues) ==
    /\ Evaluating
    /\ Cardinality(DOMAIN targets) + Len(invalues) <= MaxTargets
    /\ LET e == callback_err(targets, invalues)
       IN /\ err' = e
          /\ targets' = callback_targets(targets, invalues)
    /\ UNCHANGED <<frames, global_args, subprojects>>
    /\ returned' = None
    /\ UNCHANGED <<resolve_calls, interpreters, projects>>
    /\ UNCHANGED not_interp

\* GnomeModule.compile_resources: the two targets it returns
compile_resources(name) == <<NewTarget(name \o "_c", "cus"), NewTarget(name \o "_h", "cus")>>

\* GnomeModule.gdbus_codegen: the target it returns
gdbus_codegen(name) == <<NewTarget(name \o "-gdbus", "cus")>>

\* what the methods of the gnome module hand to module_method_callback
ModuleValues ==
    {compile_resources(n) : n \in ModuleArgs} \cup {gdbus_codegen(n) : n \in ModuleArgs}

\* Interpreter.func_add_global_arguments
add_global_arguments_err ==
    IF Top.subproject # ""
    THEN Raise("InvalidCode", "Global arguments can not be set in subprojects")
    ELSE IF Top.global_args_frozen
         THEN Raise("InvalidCode", "Tried to set global arguments after a build target has been declared")
         ELSE NoErr

func_add_global_arguments(args) ==
    /\ Evaluating
    /\ Len(global_args) + Len(args) <= MaxGlobalArgs
    /\ LET e == add_global_arguments_err
       IN /\ err' = e
          /\ global_args' = IF e = NoErr THEN global_args \o args ELSE global_args
    /\ UNCHANGED <<frames, targets, subprojects>>
    /\ returned' = None
    /\ UNCHANGED <<resolve_calls, interpreters, projects>>
    /\ UNCHANGED not_interp

\* Interpreter.func_subdir up to the evaluation of the entered build file;
\* the build file of the project's own directory starts with project()
func_subdir_err(arg) ==
    IF InSeq("..", arg) THEN Raise("InvalidArguments", "Subdir contains ..")
    ELSE IF Top.subdir = <<>> /\ arg = <<subproject_dir>>
    THEN Raise("InvalidArguments", "Must not go into subprojects dir with subdir()")
    ELSE IF (Top.subdir \o arg) \in Top.visited_subdirs
    THEN Raise("InvalidArguments", "Tried to enter directory which has already been visited")
    ELSE IF normpath(Top.subdir \o arg) \notin BuildFiles
    THEN Raise("InterpreterException", "Nonexistant build def file")
    ELSE IF normpath(Top.subdir \o arg) = project_root(Top)
    THEN Raise("InvalidCode", "Second call to project()")
    ELSE NoErr

func_subdir(arg) ==
    /\ Evaluating
    /\ Len(Top.prev) < MaxNesting
    /\ LET e == func_subdir_err(arg)
           subdir == Top.subdir \o arg
       IN /\ err' = e
          /\ frames' = IF e = NoErr
                       THEN SetTop([Top EXCEPT !.prev = Append(@, Top.subdir),
                                               !.visited_subdirs = @ \cup {subdir},
                                               !.subdir = subdir,
                                               !.evaluated[normpath(subdir)] = @ + 1])
                       ELSE frames
    /\ UNCHANGED <<targets, global_args, subprojects>>
    /\ returned' = None
    /\ UNCHANGED <<resolve_calls, interpreters, projects>>
    /\ UNCHANGED not_interp

\* the end of func_subdir: the entered file is evaluated, subdir is restored
func_subdir_return ==
    /\ Evaluating
    /\ Top.prev # <<>>
    /\ frames' = SetTop([Top EXCEPT !.subdir = Top.prev[Len(Top.prev)],
                                    !.prev = SubSeq(@, 1, Len(@) - 1)])
    /\ UNCHANGED <<targets, global_args, subprojects, err>>
    /\ returned' = None
    /\ UNCHANGED <<resolve_calls, interpreters, projects>>
    /\ UNCHANGED not_interp

\* os.path.split(subdir)[0] of func_subproject's root-directory check
at_project_root(f) ==
    \/ f.subdir = <<>>
    \/ SubSeq(f.subdir, 1, Len(f.subdir) - 1) = <<subproject_dir>>

RecursiveInclude(fullstack) ==
    [kind |-> "InterpreterException", msg |-> "Recursive include of subprojects", path |-> fullstack]

\* a func_subproject that never finds the name in self.subprojects
in_subprojects_never(dirname) == FALSE

\* func_subproject line 1168: dirname in self.subprojects
in_subprojects(dirname) == dirname \in subprojects

\* a func_subproject without the test of lines 1164-1167
func_subproject_err_norec(dirname, resolved) ==
    IF ~at_project_root(Top)
    THEN Raise("InterpreterException", "Subprojects must be defined at the root directory")
    ELSE IF dirname \in subprojects THEN NoErr
    ELSE IF ~resolved
    THEN Raise("InterpreterException", "Subproject directory does not exist and can not be downloaded")
    ELSE NoErr

\* Interpreter.func_subproject up to subi.run(); resolved is what the
\* wrap resolver answered (FALSE: None)
func_subproject_err(dirname, resolved) ==
    IF ~at_project_root(Top)
    THEN Raise("InterpreterException", "Subprojects must be defined at the root directory")
    ELSE IF InSeq(dirname, Top.subproject_stack)
    THEN RecursiveInclude(Top.subproject_stack \o <<dirname>>)
    ELSE IF in_subprojects(dirname) THEN NoErr
    ELSE IF ~resolved
    THEN Raise("InterpreterException", "Subproject directory does not exist and can not be downloaded")
    ELSE NoErr

subi_stack(dirname) == Top.subproject_stack \o <<dirname>>

\* func_subproject reaches r.resolve(dirname): the root-directory test and
\* the stack test passed and the name is not cached
reaches_resolver(dirname) ==
    /\ at_project_root(Top)
    /\ ~InSeq(dirname, Top.subproject_stack)
    /\ ~in_subprojects(dirname)

func_subproject(dirname, resolved) ==
    /\ Evaluating
    /\ resolve_calls[dirname] < MaxLoads
    /\ LET e == func_subproject_err(dirname, resolved)
           cached == e = NoErr /\ in_subprojects(dirname)
           subi == [NewInterpreter(dirname, <<subproject_dir, dirname>>)
                       EXCEPT !.subproject_stack = subi_stack(dirname)]
       IN /\ err' = e
          /\ frames' = IF e = NoErr /\ ~cached
                       THEN Append(SetTop([Top EXCEPT !.global_args_frozen = TRUE]), subi)
                       ELSE frames
          /\ resolve_calls' = IF reaches_resolver(dirname)
                              THEN [resolve_calls EXCEPT ![dirname] = @ + 1]
                              ELSE resolve_calls
          /\ interpreters' = IF e = NoErr /\ ~cached
                             THEN [interpreters EXCEPT ![dirname] = @ + 1]
                             ELSE interpreters
          /\ returned' = IF cached THEN SubprojectHolder(dirname, interpreters[dirname])
                         ELSE None
    /\ UNCHANGED <<targets, global_args, subprojects, projects>>
    /\ UNCHANGED not_interp

\* the end of func_subproject: subi.run() returned
func_subproject_return ==
    /\ Evaluating
    /\ Len(frames) > 1
    /\ Top.prev = <<>>
    /\ frames' = SubSeq(frames, 1, Len(frames) - 1)
    /\ subprojects' = subprojects \cup {Top.subproject}
    /\ returned' = SubprojectHolder(Top.subproject, interpreters[Top.subproject])
    /\ UNCHANGED <<targets, global_args, err, resolve_calls, interpreters, projects>>
    /\ UNCHANGED not_interp

NextInterp ==
    \/ \E k \in ProjectArgCounts, c \in BOOLEAN : func_project(k, c)
    \/ \E n \in TargetNames, ty \in BuildTypes : build_target(n, ty)
    \/ \E n \in TargetNames, ty \in CustomTypes : func_custom_target(n, ty)
    \/ \E vs \in ModuleValues : module_method_callback(vs)
    \/ \E a \in GlobalArgValues : func_add_global_arguments(a)
    \/ \E d \in SubdirArgs : func_subdir(d)
    \/ func_subdir_return
    \/ \E n \in SubprojectNames, r \in BOOLEAN : func_subproject(n, r)
    \/ func_subproject_return

\* the statements that move between build files
NextDirs ==
    \/ \E k \in ProjectArgCounts, c \in BOOLEAN : func_project(k, c)
    \/ \E d \in DirArgs : func_subdir(d)
    \/ func_subdir_return
    \/ \E n \in SubprojectNames, r \in BOOLEAN : func_subproject(n, r)
    \/ func_subproject_return

\* ------------------------------------------------------------------------
\* Interpreter: variables and values
\* ------------------------------------------------------------------------
VarNames == {"a", "b"}
BuiltinNames == {"meson", "host_machine", "build_machine", "target_machine"}
AllNames == VarNames \cup BuiltinNames
ConfKeys == {"k"}

StrV(x) == [t |-> "str", s |-> x, n |-> 0]
IntV(i) == [t |-> "int", s |-> "", n |-> i]
ListV(r) == [t |-> "list", s |-> "", n |-> r]
ConfV(c) == [t |-> "configuration_data", s |-> "", n |-> c]
Obj(class) == [t |-> "object", s |-> class, n |-> 0]

\* Interpreter.__init__: self.builtin of a build that is not a cross build
builtin ==
    [v \in BuiltinNames |-> IF v = "meson" THEN Obj("MesonMain") ELSE Obj("BuildMachine")]

InitValues ==
    /\ variables = <<>>
    /\ heap = <<>>
    /\ confs = <<>>

\* the right-hand sides, arguments and receivers a statement is built from
Literals == {[k |-> "str", s |-> "git"], [k |-> "array", s |-> ""], [k |-> "array", s |-> "git"],
             [k |-> "configuration_data", s |-> ""]}
Ids == {[k |-> "id", s |-> v] : v \in VarNames \cup {"meson"}}
Exprs == Literals \cup Ids

\* Interpreter.get_variable
get_variable_err(varname) ==
    IF varname \in BuiltinNames \/ varname \in DOMAIN variables THEN NoErr
    ELSE Raise("InvalidCode", "Unknown variable")

get_variable(varname) ==
    IF varname \in BuiltinNames THEN builtin[varname]
    ELSE IF varname \in DOMAIN variables THEN variables[varname]
    ELSE None

\* Interpreter.evaluate_statement of an expression: an ArrayNode and a
\* configuration_data() call build a new object, an IdNode returns the object
\* the variable holds
EvalErr(x) == IF x.k = "id" THEN get_variable_err(x.s) ELSE NoErr

EvalHeap(x) ==
    IF x.k = "array" THEN Append(heap, IF x.s = "" THEN <<>> ELSE <<StrV(x.s)>>) ELSE heap

EvalConfs(x) ==
    IF x.k = "configuration_data"
    THEN Append(confs, [used |-> FALSE, values |-> <<>>]) ELSE confs

EvalValue(x) ==
    CASE x.k = "str" -> StrV(x.s)
      [] x.k = "array" -> ListV(Len(heap) + 1)
      [] x.k = "configuration_data" -> ConfV(Len(confs) + 1)
      [] OTHER -> get_variable(x.s)

CanEval(x) ==
    /\ x.k = "array" => Len(heap) < MaxHeap
    /\ x.k = "configuration_data" => Len(confs) < MaxConfs

Overwrite(varname) ==
    [kind |-> "InvalidCode", msg |-> "Tried to overwrite internal variable", path |-> <<varname>>]

\* a set_variable without the test of lines 1032-1033
set_variable_err_unguarded(varname, variable) ==
    IF variable = None THEN Raise("InvalidCode", "Can not assign None to variable") ELSE NoErr

\* Interpreter.set_variable: the error it raises, or NoErr
set_variable_err(varname, variable) ==
    IF variable = None THEN Raise("InvalidCode", "Can not assign None to variable")
    ELSE IF varname \in BuiltinNames THEN Overwrite(varname)
    ELSE NoErr

set_variable(varname, variable) == Insert(variables, varname, variable)

\* the objects of h that a variable or a configuration object can still
\* refer to once a statement is over: a list built for the statement alone is
\* gone
StillReferenced(h) == SubSeq(h, 1, Len(heap))

\* Interpreter.assignment
assignment(var_name, x) ==
    /\ Running
    /\ CanEval(x)
    /\ LET e1 == EvalErr(x)
           e == IF e1 # NoErr THEN e1 ELSE set_variable_err(var_name, EvalValue(x))
       IN /\ err' = e
          /\ heap' = IF e = NoErr THEN EvalHeap(x) ELSE heap
          /\ confs' = IF e = NoErr THEN EvalConfs(x) ELSE confs
          /\ variables' = IF e = NoErr THEN set_variable(var_name, EvalValue(x)) ELSE variables
    /\ UNCHANGED not_values

\* Interpreter.evaluate_plusassign
evaluate_plusassign(varname, x) ==
    /\ Running
    /\ Len(heap) < MaxHeap
    /\ x.k # "configuration_data"
    /\ LET e1 == EvalErr(x)
           h1 == EvalHeap(x)
           addition == EvalValue(x)
           e2 == IF e1 # NoErr THEN e1 ELSE get_variable_err(varname)
           old_variable == get_variable(varname)
           e3 == IF e2 # NoErr THEN e2
                 ELSE IF old_variable.t # "list"
                 THEN Raise("InvalidArguments", "The += operator currently only works with arrays")
                 ELSE NoErr
           new_value == IF addition.t = "list"
                        THEN heap[old_variable.n] \o h1[addition.n]
                        ELSE heap[old_variable.n] \o <<addition>>
           e == IF e3 # NoErr THEN e3 ELSE set_variable_err(varname, ListV(Len(heap) + 1))
       IN /\ e3 = NoErr => Len(new_value) <= MaxListLen
          /\ err' = e
          /\ heap' = IF e = NoErr THEN Append(heap, new_value) ELSE heap
          /\ variables' = IF e = NoErr THEN set_variable(varname, ListV(Len(heap) + 1))
                          ELSE variables
          /\ UNCHANGED confs
    /\ UNCHANGED not_values

\* Interpreter.evaluate_foreach with an empty block: the loop variable is
\* bound to every item in turn
evaluate_foreach(varname, x) ==
    /\ Running
    /\ x.k # "configuration_data"
    /\ LET e1 == EvalErr(x)
           h1 == EvalHeap(x)
           items == EvalValue(x)
           e2 == IF e1 # NoErr THEN e1
                 ELSE IF items.t # "list"
                 THEN Raise("InvalidArguments", "Items of foreach loop is not an array")
                 ELSE NoErr
           elems == h1[items.n]
           e == IF e2 # NoErr \/ elems = <<>> THEN e2
                ELSE set_variable_err(varname, elems[1])
       IN /\ err' = e
          /\ heap' = heap
          /\ variables' = IF e = NoErr /\ elems # <<>>
                          THEN set_variable(varname, elems[Len(elems)])
                          ELSE variables
          /\ UNCHANGED confs
    /\ UNCHANGED not_values

\* Interpreter.flatten of evaluated positional arguments
flatten(h, v) == IF v.t = "list" THEN h[v.n] ELSE <<v>>

\* Interpreter.func_set_variable: function_call flattens the positional
\* arguments before the two-argument check
func_set_variable(varname, x) ==
    /\ Running
    /\ x.k = "configuration_data" => Len(confs) < MaxConfs
    /\ LET e1 == EvalErr(x)
           h1 == EvalHeap(x)
           args == <<StrV(varname)>> \o flatten(h1, EvalValue(x))
           e2 == IF e1 # NoErr THEN e1
                 ELSE IF Len(args) # 2
                 THEN Raise("InvalidCode", "Set_variable takes two arguments")
                 ELSE NoErr
           e == IF e2 # NoErr THEN e2 ELSE set_variable_err(varname, args[2])
       IN /\ err' = e
          /\ heap' = heap
          /\ confs' = IF e1 = NoErr THEN EvalConfs(x) ELSE confs
          /\ variables' = IF e = NoErr THEN set_variable(varname, args[2]) ELSE variables
    /\ UNCHANGED not_values

\* shutil.which(cmd) or os.path.join(source_dir, cmd): an absolute path is
\* kept, a bare name becomes the program found on PATH or a path in the
\* source directory
which_or_join(cmd, on_path) ==
    IF cmd = "git" THEN (IF on_path THEN "/usr/bin/git" ELSE "/src/git") ELSE cmd

\* Interpreter.func_vcs_tag up to line 1429: a command that is not a list is
\* wrapped in a new list, and the first element of the list is replaced
vcs_cmd_err(h, vcs_cmd) ==
    IF vcs_cmd.t = "list" /\ h[vcs_cmd.n] = <<>> THEN NoErr
    ELSE IF (IF vcs_cmd.t = "list" THEN h[vcs_cmd.n][1] ELSE vcs_cmd).t # "str"
    THEN Raise("TypeError", "expected str, bytes or os.PathLike object")
    ELSE NoErr

vcs_cmd_resolved(cmd, on_path) ==
    [cmd EXCEPT ![1] = StrV(which_or_join(cmd[1].s, on_path))]

func_vcs_tag(x, on_path) ==
    /\ Running
    /\ x.k # "configuration_data"
    /\ LET e1 == EvalErr(x)
           h1 == EvalHeap(x)
           vcs_cmd == EvalValue(x)
           e == IF e1 # NoErr THEN e1 ELSE vcs_cmd_err(h1, vcs_cmd)
       IN /\ err' = e
          /\ heap' = IF e = NoErr /\ vcs_cmd.t = "list" /\ h1[vcs_cmd.n] # <<>>
                     THEN StillReferenced([h1 EXCEPT ![vcs_cmd.n] = vcs_cmd_resolved(@, on_path)])
                     ELSE heap
          /\ UNCHANGED <<variables, confs>>
    /\ UNCHANGED not_values

UsedMsg == "Can not set values on configuration object that has been used"

\* a validate_args without the test of lines 188-189
validate_args_err_unguarded(c) == NoErr

\* ConfigurationDataHolder.validate_args
validate_args_err(c) ==
    IF confs[c].used
    THEN Raise("InterpreterException", UsedMsg)
    ELSE NoErr

\* Interpreter.method_call of set and set10 on a configuration_data object;
\* the value argument is evaluated by reduce_arguments and stored as it is
conf_value(h, method_name, val) ==
    IF method_name = "set" THEN val
    ELSE IF val \in {None, StrV(""), IntV(0)} \/ (val.t = "list" /\ h[val.n] = <<>>)
    THEN IntV(0) ELSE IntV(1)

method_call_set(varname, method_name, key, x) ==
    /\ Running
    /\ method_name = "set" => CanEval(x)
    /\ x.k # "configuration_data"
    /\ varname \in DOMAIN variables
    /\ variables[varname].t = "configuration_data"
    /\ LET c == variables[varname].n
           e1 == EvalErr(x)
           e == IF e1 # NoErr THEN e1 ELSE validate_args_err(c)
       IN /\ err' = e
          /\ heap' = IF e = NoErr /\ method_name = "set" THEN EvalHeap(x) ELSE heap
          /\ confs' = IF e = NoErr
                      THEN [confs EXCEPT ![c].values =
                                Insert(@, key, conf_value(EvalHeap(x), method_name, EvalValue(x)))]
                      ELSE confs
          /\ UNCHANGED variables
    /\ UNCHANGED not_values

\* mesonlib.do_conf_file: the input file mentions the keys in mentioned
do_conf_file_err(c, mentioned) ==
    IF \E key \in mentioned \cap DOMAIN confs[c].values :
           confs[c].values[key].t \notin {"str", "int"}
    THEN Raise("RuntimeError", "Tried to replace a variable with something other than a string or int")
    ELSE NoErr

mark_used(c) == [confs EXCEPT ![c].used = TRUE]

\* Interpreter.func_configure_file with the configuration keyword
func_configure_file(varname, mentioned) ==
    /\ Running
    /\ varname \in DOMAIN variables
    /\ variables[varname].t = "configuration_data"
    /\ LET c == variables[varname].n
           e == do_conf_file_err(c, mentioned)
       IN /\ err' = e
          /\ confs' = IF e = NoErr THEN mark_used(c) ELSE confs
    /\ UNCHANGED <<variables, heap>>
    /\ UNCHANGED not_values

\* statements over strings, lists and the built-in objects
ValueExprs == {x \in Exprs : x.k # "configuration_data"}

NextValues ==
    \/ \E v \in AllNames, x \in ValueExprs : assignment(v, x)
    \/ \E v \in AllNames, x \in ValueExprs : evaluate_plusassign(v, x)
    \/ \E v \in AllNames, x \in ValueExprs : evaluate_foreach(v, x)
    \/ \E v \in AllNames, x \in ValueExprs : func_set_variable(v, x)
    \/ \E x \in ValueExprs, p \in BOOLEAN : func_vcs_tag(x, p)

\* statements over configuration objects
ConfExprs == {x \in Exprs : x.k # "array"}

NextConf ==
    \/ \E v \in VarNames, x \in ConfExprs : assignment(v, x)
    \/ \E v \in VarNames, m \in {"set", "set10"}, key \in ConfKeys, x \in ConfExprs :
           method_call_set(v, m, key, x)
    \/ \E v \in VarNames, ks \in SUBSET ConfKeys : func_configure_file(v, ks)

\* ------------------------------------------------------------------------
\* Wrap resolver (src/wrap.py)
\* ------------------------------------------------------------------------
Bit == {0, 1}
RECURSIVE BitStrings(_)
BitStrings(n) ==
    IF n = 0 THEN {<<>>} ELSE {Append(d, b) : d \in BitStrings(n - 1), b \in Bit}

\* what a URL can deliver: any data of the archive's length
Downloads == BitStrings(MaxDataLen)

\* the archives upstream published
GoodSource == [i \in 1..MaxDataLen |-> 1]
GoodPatch == [i \in 1..MaxDataLen |-> 0]

\* Resolver.get_hash: the digest is a number that differs for different data
\* (the data read as a binary numeral after a leading one)
RECURSIVE get_hash(_)
get_hash(data) ==
    IF data = <<>> THEN 1
    ELSE 2 * get_hash(SubSeq(data, 1, Len(data) - 1)) + data[Len(data)]

NoFile == [exists |-> FALSE, data |-> <<>>]
File(d) == [exists |-> TRUE, data |-> d]
NoData == [got |-> FALSE, data |-> <<>>]
Data(d) == [got |-> TRUE, data |-> d]
NoDir == [exists |-> FALSE, unpacked |-> <<>>]

\* PackageDefinition of a [wrap-file] with or without a patch
Packages ==
    {[has_patch |-> hp, source_hash |-> get_hash(GoodSource), patch_hash |-> get_hash(GoodPatch)] :
        hp \in BOOLEAN}

\* no wrap file has been read yet
NoPackage == [has_patch |-> FALSE, source_hash |-> 0, patch_hash |-> 0]

InitWrap ==
    /\ wpc = "idle"
    /\ package = NoPackage
    /\ files = [source |-> NoFile, patch |-> NoFile]
    /\ target_dir = NoDir
    /\ srcdata = NoData
    /\ pdata = NoData
    /\ files0 = files
    /\ target_dir0 = target_dir

\* Resolver.resolve up to the call of download, and download's cache test;
\* p is the PackageDefinition read from the wrap file
resolve(p) ==
    /\ wpc = "idle"
    /\ package' = p
    /\ wpc' = IF files.source.exists THEN "extract" ELSE "get_source"
    /\ srcdata' = NoData
    /\ pdata' = NoData
    /\ files0' = files
    /\ target_dir0' = target_dir
    /\ UNCHANGED <<files, target_dir>>
    /\ UNCHANGED not_wrap

\* a download without the test of lines 138-139
source_hash_accepted_unchecked(d) == TRUE

\* Resolver.download lines 136-139
source_hash_accepted(d) == get_hash(d) = package.source_hash

\* Resolver.download lines 144-147
patch_hash_accepted(d) == get_hash(d) = package.patch_hash

\* Resolver.download lines 133-140: get_data of the source and its hash check
download_source(d) ==
    /\ wpc = "get_source"
    /\ srcdata' = Data(d)
    /\ wpc' = IF ~source_hash_accepted(d) THEN "raised"
              ELSE IF package.has_patch THEN "get_patch" ELSE "open_source"
    /\ UNCHANGED <<package, files, target_dir, pdata, files0, target_dir0>>
    /\ UNCHANGED not_wrap

\* Resolver.download lines 141-147: get_data of the patch and its hash check
download_patch(d) ==
    /\ wpc = "get_patch"
    /\ pdata' = Data(d)
    /\ wpc' = IF ~patch_hash_accepted(d) THEN "raised" ELSE "open_patch"
    /\ UNCHANGED <<package, files, target_dir, srcdata, files0, target_dir0>>
    /\ UNCHANGED not_wrap

\* open(name, 'wb'): the file exists and is empty
open_wb(name) == [files EXCEPT ![name] = File(<<>>)]

\* file.write(data), which appends to what has been written so far
write(name, data) == [files EXCEPT ![name] = File(data)]

\* Resolver.download line 148
download_open_patch ==
    /\ wpc = "open_patch"
    /\ files' = open_wb("patch")
    /\ wpc' = "write_patch"
    /\ UNCHANGED <<package, target_dir, srcdata, pdata, files0, target_dir0>>
    /\ UNCHANGED not_wrap

download_write_patch ==
    /\ wpc = "write_patch"
    /\ \E n \in (Len(files.patch.data) + 1)..Len(pdata.data) :
           /\ files' = write("patch", SubSeq(pdata.data, 1, n))
           /\ wpc' = IF n = Len(pdata.data) THEN "open_source" ELSE "write_patch"
    /\ UNCHANGED <<package, target_dir, srcdata, pdata, files0, target_dir0>>
    /\ UNCHANGED not_wrap

\* Resolver.download line 151
download_open_source ==
    /\ wpc = "open_source"
    /\ files' = open_wb("source")
    /\ wpc' = "write_source"
    /\ UNCHANGED <<package, target_dir, srcdata, pdata, files0, target_dir0>>
    /\ UNCHANGED not_wrap

download_write_source ==
    /\ wpc = "write_source"
    /\ \E n \in (Len(files.source.data) + 1)..Len(srcdata.data) :
           /\ files' = write("source", SubSeq(srcdata.data, 1, n))
           /\ wpc' = IF n = Len(srcdata.data) THEN "extract" ELSE "write_source"
    /\ UNCHANGED <<package, target_dir, srcdata, pdata, files0, target_dir0>>
    /\ UNCHANGED not_wrap

\* Resolver.extract_package lines 164-176: nothing to do when the directory
\* is there, else the cached source archive is handed to unpack_archive
extract_package ==
    /\ wpc = "extract"
    /\ IF target_dir.exists
       THEN /\ wpc' = "done"
            /\ UNCHANGED target_dir
       ELSE /\ target_dir' = [exists |-> TRUE, unpacked |-> <<files.source.data>>]
            /\ wpc' = IF package.has_patch THEN "extract_patch" ELSE "done"
    /\ UNCHANGED <<package, files, srcdata, pdata, files0, target_dir0>>
    /\ UNCHANGED not_wrap

\* Resolver.extract_package lines 177-178
extract_patch ==
    /\ wpc = "extract_patch"
    /\ target_dir' = [target_dir EXCEPT !.unpacked = Append(@, files.patch.data)]
    /\ wpc' = "done"
    /\ UNCHANGED <<package, files, srcdata, pdata, files0, target_dir0>>
    /\ UNCHANGED not_wrap

\* the run ends (resolve returned or raised) or is interrupted: the memory
\* of the process is gone and the files stay
end_of_run ==
    /\ wpc # "idle"
    /\ wpc' = "idle"
    /\ package' = NoPackage
    /\ srcdata' = NoData
    /\ pdata' = NoData
    /\ files0' = files
    /\ target_dir0' = target_dir
    /\ UNCHANGED <<files, target_dir>>
    /\ UNCHANGED not_wrap

NextWrap ==
    \/ \E p \in Packages : resolve(p)
    \/ \E d \in Downloads : download_source(d)
    \/ \E d \in Downloads : download_patch(d)
    \/ download_open_patch
    \/ download_write_patch
    \/ download_open_source
    \/ download_write_source
    \/ extract_package
    \/ extract_patch
    \/ end_of_run

\* ------------------------------------------------------------------------
\* Wrap resolver: wraps of type git
\* ------------------------------------------------------------------------
Revisions == {"head", "HEAD", "Head", "r1", "r2"}

\* revno.lower()
lower(revno) == IF revno \in {"HEAD", "Head"} THEN "head" ELSE revno

Cmd(name, ok) == [cmd |-> name, ok |-> ok]

InitGit ==
    /\ gpc = "idle"
    /\ revision = ""
    /\ checkoutdir = [is_there |-> FALSE, at |-> ""]
    /\ git_cmds = <<>>

\* Resolver.get_git lines 75-78 and 86: which command comes first
get_git(revno) ==
    /\ gpc = "idle"
    /\ revision' = revno
    /\ git_cmds' = <<>>
    /\ gpc' = IF checkoutdir.is_there
              THEN IF lower(revno) = "head" THEN "pull" ELSE "checkout"
              ELSE "clone"
    /\ UNCHANGED checkoutdir
    /\ UNCHANGED not_git

\* line 80: subprocess.check_call(['git', 'pull'])
git_pull(ok) ==
    /\ gpc = "pull"
    /\ git_cmds' = Append(git_cmds, Cmd("pull", ok))
    /\ checkoutdir' = IF ok THEN [checkoutdir EXCEPT !.at = "head"] ELSE checkoutdir
    /\ gpc' = IF ok THEN "done" ELSE "raised"
    /\ UNCHANGED revision
    /\ UNCHANGED not_git

\* line 82: subprocess.call(['git', 'checkout', revno]) in a directory that
\* was there; a failure leads to the fetch
git_checkout(ok) ==
    /\ gpc = "checkout"
    /\ git_cmds' = Append(git_cmds, Cmd("checkout", ok))
    /\ checkoutdir' = IF ok THEN [checkoutdir EXCEPT !.at = revision] ELSE checkoutdir
    /\ gpc' = IF ok THEN "done" ELSE "fetch"
    /\ UNCHANGED revision
    /\ UNCHANGED not_git

\* line 83: subprocess.check_call(['git', 'fetch'])
git_fetch(ok) ==
    /\ gpc = "fetch"
    /\ git_cmds' = Append(git_cmds, Cmd("fetch", ok))
    /\ gpc' = IF ok THEN "checkout_again" ELSE "raised"
    /\ UNCHANGED <<revision, checkoutdir>>
    /\ UNCHANGED not_git

\* lines 84-85: subprocess.check_call(['git', 'checkout', revno])
git_checkout_again(ok) ==
    /\ gpc = "checkout_again"
    /\ git_cmds' = Append(git_cmds, Cmd("checkout", ok))
    /\ checkoutdir' = IF ok THEN [checkoutdir EXCEPT !.at = revision] ELSE checkoutdir
    /\ gpc' = IF ok THEN "done" ELSE "raised"
    /\ UNCHANGED revision
    /\ UNCHANGED not_git

\* lines 87-88: subprocess.check_call(['git', 'clone', url, directory])
git_clone(ok) ==
    /\ gpc = "clone"
    /\ git_cmds' = Append(git_cmds, Cmd("clone", ok))
    /\ checkoutdir' = IF ok THEN [is_there |-> TRUE, at |-> "head"] ELSE checkoutdir
    /\ gpc' = IF ~ok THEN "raised"
              ELSE IF lower(revision) # "head" THEN "checkout_cloned" ELSE "done"
    /\ UNCHANGED revision
    /\ UNCHANGED not_git

\* lines 89-91: subprocess.check_call(['git', 'checkout', revno]) in the
\* directory just cloned
git_checkout_cloned(ok) ==
    /\ gpc = "checkout_cloned"
    /\ git_cmds' = Append(git_cmds, Cmd("checkout", ok))
    /\ checkoutdir' = IF ok THEN [checkoutdir EXCEPT !.at = revision] ELSE checkoutdir
    /\ gpc' = IF ok THEN "done" ELSE "raised"
    /\ UNCHANGED revision
    /\ UNCHANGED not_git

\* get_git returned or raised; the checkout directory stays
get_git_end ==
    /\ gpc \in {"done", "raised"}
    /\ gpc' = "idle"
    /\ UNCHANGED <<revision, checkoutdir, git_cmds>>
    /\ UNCHANGED not_git

NextGit ==
    \/ \E r \in Revisions : get_git(r)
    \/ \E ok \in BOOLEAN : git_pull(ok)
    \/ \E ok \in BOOLEAN : git_checkout(ok)
    \/ \E ok \in BOOLEAN : git_fetch(ok)
    \/ \E ok \in BOOLEAN : git_checkout_again(ok)
    \/ \E ok \in BOOLEAN : git_clone(ok)
    \/ \E ok \in BOOLEAN : git_checkout_cloned(ok)
    \/ get_git_end

\* ------------------------------------------------------------------------
\* Option store (src/mesonbuild/options.py)
\* ------------------------------------------------------------------------
OptionNames == {"old", "new"}
OptionValues == {"a", "b"}
OptionSubprojects == {"", "sub"}
Machines == {"host", "build"}

\* OptionKey
OptionKey(name, subproject, machine) ==
    [name |-> name, subproject |-> subproject, machine |-> machine]

\* a key's subproject when the option is global (None in the source)
GlobalScope == "<none>"

NoKey == OptionKey("", GlobalScope, "host")

\* UserOption.deprecated: False, True, a list of deprecated values, or the
\* name of the replacing option
NotDeprecated == [is |-> "False", values |-> {}, name |-> ""]
Deprecated == [is |-> "True", values |-> {}, name |-> ""]
DeprecatedValues(values) == [is |-> "list", values |-> values, name |-> ""]
ReplacedBy(name) == [is |-> "str", values |-> {}, name |-> name]

\* UserStringOption and UserComboOption objects as their constructors leave
\* them
UserStringOption(value, yielding, deprecated) ==
    [type |-> "UserStringOption", choices |-> {}, value |-> value,
     yielding |-> yielding, deprecated |-> deprecated]

UserComboOption(choices, value, yielding, deprecated) ==
    [type |-> "UserComboOption", choices |-> choices, value |-> value,
     yielding |-> yielding, deprecated |-> deprecated]

Replacements(name) ==
    IF name = "old" THEN {NotDeprecated, ReplacedBy("new")} ELSE {NotDeprecated}

OptionObjects(name) ==
    {UserStringOption(v, y, d) : v \in OptionValues, y \in BOOLEAN, d \in Replacements(name)}
    \cup {UserComboOption({"a"}, "a", y, d) : y \in BOOLEAN, d \in Replacements(name)}

\* UserStringOption.validate_value, UserComboOption.validate_value: whether
\* the value is accepted (every value here is a string)
validate_value_ok(opt, value) ==
    IF opt.type = "UserComboOption" THEN value \in opt.choices ELSE TRUE

\* UserOption.set_value
UserOption_set_value(opt, newvalue) ==
    IF validate_value_ok(opt, newvalue)
    THEN [opt |-> [opt EXCEPT !.value = newvalue], err |-> "none"]
    ELSE [opt |-> opt, err |-> "MesonException"]

\* OptionStore.ensure_and_validate_key
ensure_and_validate_key(key) ==
    IF ~is_cross /\ key.machine = "build" THEN [key EXCEPT !.machine = "host"] ELSE key

Found(key) == [err |-> "none", key |-> key]
NotFound == [err |-> "KeyError", key |-> NoKey]

\* OptionStore.get_value_object_for lines 734-741
yielding_lookup(opts, key) ==
    LET parent_key == [key EXCEPT !.subproject = ""]
    IN IF parent_key \notin DOMAIN opts THEN NotFound
       ELSE IF opts[parent_key].type = opts[key].type THEN Found(parent_key)
       ELSE Found(key)

\* OptionStore.get_value_object_for: the key of the object returned, or the
\* exception raised
get_value_object_for_result(opts, popts, key0) ==
    LET key == ensure_and_validate_key(key0)
    IN IF key \in popts
       THEN IF key \in DOMAIN opts /\ opts[key].yielding THEN yielding_lookup(opts, key)
            ELSE IF key \notin DOMAIN opts THEN NotFound
            ELSE Found(key)
       ELSE IF key \notin DOMAIN opts
            THEN LET parent_key == [key EXCEPT !.subproject = GlobalScope]
                 IN IF parent_key \notin DOMAIN opts THEN NotFound ELSE Found(parent_key)
            ELSE Found(key)

\* path strings, as sequences of characters
PathChars == {"/", "u", "~"}
RECURSIVE Paths(_)
Paths(n) ==
    IF n = 0 THEN {<<>>} ELSE {<<>>} \cup {<<c>> \o q : c \in PathChars, q \in Paths(n - 1)}
Prefixes == Paths(MaxPrefixLen) \ {<<>>}

\* the home directory of the user running the configuration
HomeDir == <<"/", "h">>

\* os.path.expanduser (posixpath): a leading '~' alone or before a '/' is
\* the home directory; '~name' of an unknown user stays as it is
expanduser(path) ==
    IF path # <<>> /\ path[1] = "~" /\ (Len(path) = 1 \/ path[2] = "/")
    THEN HomeDir \o Tail(path)
    ELSE path

\* os.path.isabs (posixpath)
isabs(path) == path # <<>> /\ path[1] = "/"

endswith_sep(path) == path # <<>> /\ path[Len(path)] \in {"/", "\\"}

Value(v) == [err |-> "none", value |-> v]
NoValue(e) == [err |-> e, value |-> ""]

\* OptionStore.sanitize_prefix
sanitize_prefix(prefix0) ==
    LET prefix == expanduser(prefix0)
    IN IF ~isabs(prefix) THEN NoValue("MesonException")
       ELSE IF endswith_sep(prefix)
       THEN IF Len(prefix) = 3 /\ prefix[2] = ":" THEN Value(prefix)
            ELSE IF Len(prefix) = 1 THEN Value(prefix)
            ELSE Value(SubSeq(prefix, 1, Len(prefix) - 1))
       ELSE Value(prefix)

\* set_value lines 816-817, set_option lines 828-829
sanitized(name, new_value) ==
    IF name = "prefix" THEN sanitize_prefix(new_value) ELSE Value(new_value)

\* what mlog.deprecation is called with
DeprecationMsg(name, value, text, by) ==
    [name |-> name, value |-> value, text |-> text, by |-> by]

\* the result of set_option: the options, the exception raised and the
\* mlog.deprecation calls made
SetResult(opts, e, log) == [options |-> opts, err |-> e, log |-> log]

RECURSIVE set_option_result(_, _, _, _, _)
set_option_result(opts, popts, name, subproject, new_value0) ==
    LET key == OptionKey(name, subproject, "host")
        sv == sanitized(name, new_value0)
        new_value == sv.value
        r == get_value_object_for_result(opts, popts, key)
        opt == opts[r.key]
        own == UserOption_set_value(opt, new_value)
    IN IF sv.err # "none" THEN SetResult(opts, sv.err, <<>>)
       ELSE IF r.err # "none" THEN SetResult(opts, r.err, <<>>)
       ELSE IF opt.deprecated.is = "True"
       THEN SetResult([opts EXCEPT ![r.key] = own.opt], own.err,
                      <<DeprecationMsg(key.name, "", "is deprecated", "")>>)
       ELSE IF opt.deprecated.is = "list"
       THEN SetResult([opts EXCEPT ![r.key] = own.opt], own.err,
                      IF new_value \in opt.deprecated.values
                      THEN <<DeprecationMsg(key.name, new_value, "value is deprecated", "")>>
                      ELSE <<>>)
       ELSE IF opt.deprecated.is = "str"
       THEN LET said == <<DeprecationMsg(name, "", "is replaced by", opt.deprecated.name)>>
                inner == set_option_result(opts, popts, opt.deprecated.name,
                                           subproject, new_value)
                own2 == UserOption_set_value(inner.options[r.key], new_value)
            IN IF inner.err # "none"
               THEN SetResult(inner.options, inner.err, said \o inner.log)
               ELSE SetResult([inner.options EXCEPT ![r.key] = own2.opt], own2.err,
                              said \o inner.log)
       ELSE SetResult([opts EXCEPT ![r.key] = own.opt], own.err, <<>>)

\* no get_value_for result at hand
Unasked == NoValue("unasked")

InitOptions ==
    /\ is_cross = FALSE
    /\ options = <<>>
    /\ project_options = {}
    /\ pending_project_options = <<>>
    /\ augments = <<>>
    /\ cmd_line_options = <<>>
    /\ oerr = "none"
    /\ oresult = NoKey
    /\ ovalue = Unasked
    /\ deprecations = <<>>

\* OptionStore.__init__
OptionStore_init(cross) ==
    /\ is_cross' = cross
    /\ options' = <<>>
    /\ project_options' = {}
    /\ pending_project_options' = <<>>
    /\ augments' = <<>>
    /\ cmd_line_options' = <<>>
    /\ oerr' = "none"
    /\ oresult' = NoKey
    /\ ovalue' = Unasked
    /\ deprecations' = <<>>
    /\ UNCHANGED not_options

\* OptionStore.add_project_option
add_project_option(key, valobj) ==
    /\ Cardinality(DOMAIN options \cup {key}) <= MaxOptions
    /\ LET opts1 == Insert(options, key, valobj)
           popts1 == project_options \cup {key}
           pending == key \in DOMAIN pending_project_options
           r == IF pending
                THEN set_option_result(opts1, popts1, key.name, key.subproject,
                                       pending_project_options[key])
                ELSE SetResult(opts1, "none", <<>>)
       IN /\ options' = r.options
          /\ project_options' = popts1
          /\ pending_project_options' =
                 [k \in DOMAIN pending_project_options \ {key} |-> pending_project_options[k]]
          /\ oerr' = r.err
          /\ Len(deprecations) + Len(r.log) <= MaxDeprecations
          /\ deprecations' = deprecations \o r.log
    /\ UNCHANGED <<is_cross, oresult>>
    /\ UNCHANGED cvars
    /\ ovalue' = Unasked
    /\ UNCHANGED not_options

\* OptionStore.get_value_object_for
get_value_object_for(key) ==
    /\ LET r == get_value_object_for_result(options, project_options, key)
       IN /\ oerr' = r.err
          /\ oresult' = r.key
    /\ UNCHANGED <<is_cross, options, project_options, pending_project_options>>
    /\ UNCHANGED cvars
    /\ ovalue' = Unasked
    /\ UNCHANGED deprecations
    /\ UNCHANGED not_options

\* OptionStore.set_value for prefix and for an option that is not built in
set_value(key0, new_value) ==
    /\ LET key == ensure_and_validate_key(key0)
           sv == sanitized(key.name, new_value)
           r == IF sv.err # "none" THEN [opt |-> NoKey, err |-> sv.err]
                ELSE IF key \in DOMAIN options
                THEN UserOption_set_value(options[key], sv.value)
                ELSE [opt |-> NoKey, err |-> "MesonException"]
       IN /\ oerr' = r.err
          /\ options' = IF r.err = "none" THEN [options EXCEPT ![key] = r.opt] ELSE options
    /\ UNCHANGED <<is_cross, project_options, pending_project_options, oresult>>
    /\ UNCHANGED cvars
    /\ ovalue' = Unasked
    /\ UNCHANGED deprecations
    /\ UNCHANGED not_options

\* OptionStore.add_system_option
add_system_option(key0, valobj) ==
    /\ LET key == ensure_and_validate_key(key0)
           fresh == key \notin DOMAIN options
           opts1 == IF fresh THEN Insert(options, key, valobj) ELSE options
           pending == fresh /\ key \in DOMAIN pending_project_options
           r == IF pending
                THEN set_option_result(opts1, project_options, key.name, key.subproject,
                                       pending_project_options[key])
                ELSE SetResult(opts1, "none", <<>>)
       IN /\ options' = r.options
          /\ pending_project_options' =
                 IF fresh
                 THEN [k \in DOMAIN pending_project_options \ {key} |-> pending_project_options[k]]
                 ELSE pending_project_options
          /\ oerr' = r.err
          /\ Len(deprecations) + Len(r.log) <= MaxDeprecations
          /\ deprecations' = deprecations \o r.log
    /\ UNCHANGED <<is_cross, project_options, oresult>>
    /\ UNCHANGED cvars
    /\ ovalue' = Unasked
    /\ UNCHANGED not_options

\* OptionStore.set_option
set_option(name, subproject, new_value) ==
    /\ LET r == set_option_result(options, project_options, name, subproject, new_value)
       IN /\ oerr' = r.err
          /\ Len(deprecations) + Len(r.log) <= MaxDeprecations
          /\ deprecations' = deprecations \o r.log
          /\ options' = r.options
    /\ UNCHANGED <<is_cross, project_options, pending_project_options, oresult>>
    /\ UNCHANGED cvars
    /\ ovalue' = Unasked
    /\ UNCHANGED not_options

\* the key strings of -D options, default_options and machine files:
\* <<name>> for 'name' and <<subproject, name>> for 'subproject:name'
KeyStrings == {<<"new">>, <<"sub", "new">>}
OptDicts == {<<>>} \cup {[k \in {ks} |-> v] : ks \in KeyStrings, v \in OptionValues}

\* OptionKey.from_string
from_string(raw) ==
    IF Len(raw) = 2 THEN OptionKey(raw[2], raw[1], "host")
    ELSE OptionKey(raw[1], GlobalScope, "host")

\* the state set_from_top_level_project_call works on
StoreState(opts, pending, e, log) ==
    [options |-> opts, pending |-> pending, err |-> e, log |-> log]

\* self.options[key].set_value(valstr)
direct_set(st, key, valstr) ==
    LET r == UserOption_set_value(st.options[key], valstr)
    IN StoreState([st.options EXCEPT ![key] = r.opt], st.pending, r.err, st.log)

\* self.set_option(key.name, key.subproject, valstr)
store_set_option(st, key, valstr) ==
    LET r == set_option_result(st.options, project_options, key.name, key.subproject, valstr)
    IN StoreState(r.options, st.pending, r.err, st.log \o r.log)

\* self.pending_project_options[key] = valstr
set_pending(st, key, valstr) ==
    StoreState(st.options, Insert(st.pending, key, valstr), st.err, st.log)

\* set_from_top_level_project_call lines 1016-1033: the machine file options
native_file_loop(st, native_file_options) ==
    IF st.err # "none" \/ native_file_options = <<>> THEN st
    ELSE LET keystr == CHOOSE k \in DOMAIN native_file_options : TRUE
             valstr == native_file_options[keystr]
             key == from_string(keystr)
             proj_key == [key EXCEPT !.subproject = ""]
         IN IF key.subproject # GlobalScope
            THEN StoreState(st.options, st.pending, "MesonException", st.log)
            ELSE IF key \in DOMAIN st.options THEN direct_set(st, key, valstr)
            ELSE IF proj_key \in DOMAIN st.options THEN direct_set(st, proj_key, valstr)
            ELSE set_pending(st, key, valstr)

\* lines 1034-1058: the default_options of the project() call
project_default_loop(st, project_default_options) ==
    IF st.err # "none" \/ project_default_options = <<>> THEN st
    ELSE LET keystr == CHOOSE k \in DOMAIN project_default_options : TRUE
             valstr == project_default_options[keystr]
             key == from_string(keystr)
             proj_key == [key EXCEPT !.subproject = ""]
         IN IF key.subproject # GlobalScope THEN set_pending(st, key, valstr)
            ELSE IF key \in DOMAIN st.options THEN store_set_option(st, key, valstr)
            ELSE IF proj_key \in project_options THEN store_set_option(st, proj_key, valstr)
            ELSE set_pending(st, key, valstr)

\* lines 1059-1071: the command line
cmd_line_loop(st, cmd_line) ==
    IF st.err # "none" \/ cmd_line = <<>> THEN st
    ELSE LET keystr == CHOOSE k \in DOMAIN cmd_line : TRUE
             valstr == cmd_line[keystr]
             key == from_string(keystr)
             projectkey == [key EXCEPT !.subproject = ""]
         IN IF key.subproject # GlobalScope
            THEN StoreState(st.options, st.pending, "MesonException", st.log)
            ELSE IF key \in DOMAIN st.options THEN direct_set(st, key, valstr)
            ELSE IF projectkey \in DOMAIN st.options THEN direct_set(st, projectkey, valstr)
            ELSE set_pending(st, key, valstr)

\* OptionStore.set_from_top_level_project_call
set_from_top_level_project_call(project_default_options, cmd_line, native_file_options) ==
    /\ LET st0 == StoreState(options, pending_project_options, "none", <<>>)
           st1 == native_file_loop(st0, native_file_options)
           st2 == project_default_loop(st1, project_default_options)
           st3 == cmd_line_loop(st2, cmd_line)
       IN /\ options' = st3.options
          /\ pending_project_options' = st3.pending
          /\ oerr' = st3.err
          /\ Len(deprecations) + Len(st3.log) <= MaxDeprecations
          /\ deprecations' = deprecations \o st3.log
    /\ cmd_line_options' = cmd_line
    /\ ovalue' = Unasked
    /\ UNCHANGED <<is_cross, project_options, augments, oresult>>
    /\ UNCHANGED not_options

ProjectKeys == {OptionKey(n, sp, "host") : n \in OptionNames, sp \in OptionSubprojects}
LookupKeys == {OptionKey(n, sp, m) : n \in OptionNames, sp \in OptionSubprojects, m \in Machines}

NextOptions ==
    \/ \E cross \in BOOLEAN : OptionStore_init(cross)
    \/ \E key \in ProjectKeys : \E valobj \in OptionObjects(key.name) :
           add_project_option(key, valobj)
    \/ \E key \in LookupKeys : get_value_object_for(key)
    \/ \E key \in LookupKeys, v \in OptionValues : set_value(key, v)
    \/ \E n \in OptionNames, sp \in OptionSubprojects, v \in OptionValues : set_option(n, sp, v)

\* OptionKey.__str__, in the form of the key strings
str(key) ==
    LET out == IF key.machine = "build" THEN "build." \o key.name ELSE key.name
    IN IF key.subproject # GlobalScope THEN <<key.subproject, out>> ELSE <<out>>

\* a get_value_object_and_value_for that does not look at the augments
get_value_for_result_noaug(opts, popts, augs, key) ==
    LET r == get_value_object_for_result(opts, popts, key)
    IN IF r.err # "none" THEN NoValue(r.err) ELSE Value(opts[r.key].value)

\* OptionStore.get_value_object_and_value_for: the computed value, or the
\* exception raised
get_value_for_result(opts, popts, augs, key) ==
    LET r == get_value_object_for_result(opts, popts, key)
    IN IF r.err # "none" THEN NoValue(r.err)
       ELSE IF key.subproject # GlobalScope /\ str(key) \in DOMAIN augs
       THEN IF validate_value_ok(opts[r.key], augs[str(key)])
            THEN Value(augs[str(key)])
            ELSE NoValue("MesonException")
       ELSE Value(opts[r.key].value)

\* OptionStore.get_value_for
get_value_for(key) ==
    /\ LET r == get_value_for_result(options, project_options, augments, key)
       IN /\ ovalue' = r
          /\ oerr' = r.err
    /\ UNCHANGED <<is_cross, options, project_options, pending_project_options, augments,
                   cmd_line_options, oresult>>
    /\ UNCHANGED deprecations
    /\ UNCHANGED not_options

\* the 'name=value' entries of default_options, as <<name, value>>
OptLists == {<<>>} \cup {<<<<"new", v>>>> : v \in OptionValues}

RECURSIVE add_augments(_, _, _)
add_augments(augs, subproject, optlist) ==
    IF optlist = <<>> THEN augs
    ELSE LET keystr == <<subproject, optlist[1][1]>>
         IN add_augments(IF keystr \in DOMAIN augs THEN augs
                         ELSE Insert(augs, keystr, optlist[1][2]),
                         subproject, Tail(optlist))

\* OptionStore.set_from_subproject_call
set_from_subproject_call(subproject, spcall_default_options, project_default_options) ==
    /\ augments' = add_augments(augments, subproject,
                                spcall_default_options \o project_default_options)
    /\ oerr' = "none"
    /\ ovalue' = Unasked
    /\ UNCHANGED <<is_cross, options, project_options, pending_project_options,
                   cmd_line_options, oresult>>
    /\ UNCHANGED deprecations
    /\ UNCHANGED not_options

ValueKeys ==
    {OptionKey("new", sp, m) : sp \in OptionSubprojects \cup {GlobalScope}, m \in Machines}

\* the options an option file declares, and the store as the top level
\* project call and the option file fill it
DeclaredKeys == {OptionKey("new", sp, "host") : sp \in OptionSubprojects}
DeclaredObjects ==
    {UserStringOption("a", y, NotDeprecated) : y \in BOOLEAN}
    \cup {UserComboOption({"a"}, "a", FALSE, NotDeprecated)}

NextTopLevel ==
    \/ \E cross \in BOOLEAN : OptionStore_init(cross)
    \/ \E key \in DeclaredKeys, valobj \in DeclaredObjects : add_project_option(key, valobj)
    \/ \E d \in OptDicts, c \in OptDicts, n \in OptDicts : set_from_top_level_project_call(d, c, n)

\* the options of the root project with every kind of deprecation, declared
\* and set
DeprecationKeys == {OptionKey(n, "", "host") : n \in OptionNames}
DeprecatedObjects(name) ==
    {UserStringOption("a", FALSE, d) :
        d \in {NotDeprecated, Deprecated, DeprecatedValues({"b"})} \cup Replacements(name)}

NextDeprecation ==
    \/ \E cross \in BOOLEAN : OptionStore_init(cross)
    \/ \E key \in DeprecationKeys : \E valobj \in DeprecatedObjects(key.name) :
           add_project_option(key, valobj)
    \/ \E n \in OptionNames, v \in OptionValues : set_option(n, "", v)

\* the prefix option, registered and set
PrefixKey == OptionKey("prefix", GlobalScope, "host")
PrefixKeys == {OptionKey("prefix", GlobalScope, m) : m \in Machines}
PrefixDefaults == {<<"/", "u">>, <<"/">>}

NextPrefix ==
    \/ \E cross \in BOOLEAN : OptionStore_init(cross)
    \/ \E key \in PrefixKeys, d \in PrefixDefaults :
           add_system_option(key, UserStringOption(d, FALSE, NotDeprecated))
    \/ \E key \in PrefixKeys, v \in Prefixes : set_value(key, v)
    \/ \E sp \in {GlobalScope, ""}, v \in Prefixes : set_option("prefix", sp, v)

\* the store as the option file, the subproject() calls and get_option fill
\* and read it
NextValueFor ==
    \/ \E cross \in BOOLEAN : OptionStore_init(cross)
    \/ \E key \in DeclaredKeys, valobj \in DeclaredObjects : add_project_option(key, valobj)
    \/ \E sp \in OptionSubprojects, v \in OptionValues : set_option("new", sp, v)
    \/ \E sp \in OptionSubprojects \ {""}, c \in OptLists, d \in OptLists :
           set_from_subproject_call(sp, c, d)
    \/ \E key \in ValueKeys : get_value_for(key)

\* ------------------------------------------------------------------------
\* The option interpreter (src/mesonbuild/optinterpreter.py).
\* A string is the sequence of its characters.
\* ------------------------------------------------------------------------
\* the characters of the strings below, in the order of their code points
Alphabet == <<":", "=", "_", "a", "b", "c", "d", "e", "f", "g", "h", "i", "j", "k", "l", "m", "n", "o", "p", "q", "r", "s", "t", "u", "v", "w", "x", "y", "z">>

ord(c) == CHOOSE i \in 1..Len(Alphabet) : Alphabet[i] = c

\* str.startswith
startswith(str0, p) == Len(p) <= Len(str0) /\ SubSeq(str0, 1, Len(p)) = p

\* str.find for one character, counted from 1; 0 when the character is absent
find(str0, c) ==
    IF \E i \in 1..Len(str0) : str0[i] = c
    THEN CHOOSE i \in 1..Len(str0) : str0[i] = c /\ \A j \in 1..(i - 1) : str0[j] # c
    ELSE 0

\* the order of str.__lt__
RECURSIVE str_lt(_, _)
str_lt(a, b) ==
    IF b = <<>> THEN FALSE
    ELSE IF a = <<>> THEN TRUE
    ELSE IF a[1] # b[1] THEN ord(a[1]) < ord(b[1])
    ELSE str_lt(Tail(a), Tail(b))

\* sorted(), of a set of strings
RECURSIVE sorted(_)
sorted(strs) ==
    IF strs = {} THEN <<>>
    ELSE LET least == CHOOSE x \in strs : \A y \in strs \ {x} : str_lt(x, y)
         IN  <<least>> \o sorted(strs \ {least})

forbidden_option_names == {<<"p", "r", "e", "f", "i", "x">>,
     <<"w", "e", "r", "r", "o", "r">>}

forbidden_prefixes ==
    {<<"c", "_">>,
     <<"c", "p", "p", "_">>,
     <<"d", "_">>,
     <<"r", "u", "s", "t", "_">>,
     <<"f", "o", "r", "t", "r", "a", "n", "_">>,
     <<"o", "b", "j", "c", "_">>,
     <<"o", "b", "j", "c", "p", "p", "_">>,
     <<"v", "a", "l", "a", "_">>,
     <<"c", "s", "h", "a", "r", "p", "_">>,
     <<"s", "w", "i", "f", "t", "_">>,
     <<"b", "_">>,
     <<"b", "a", "c", "k", "e", "n", "d", "_">>}

\* name.split('_')[0] + '_'
pref(name) ==
    (IF find(name, "_") = 0 THEN name ELSE SubSeq(name, 1, find(name, "_") - 1)) \o <<"_">>

is_invalid_name(name) ==
    \/ name \in forbidden_option_names
    \/ pref(name) \in forbidden_prefixes

\* the subprojects whose option files are read; the empty string is the root
InterpSubprojects == {<<>>, <<"o", "n", "e">>}

\* the -D options of a command line
CommandLineOptions ==
    {<<"b", "a", "d", "=", "v">>,
     <<"f", "o", "o", "=", "v">>,
     <<"f", "o", "o">>,
     <<"o", "n", "e", ":", "o", "n", "e", "=", "v">>,
     <<"o", "n", "e", ":", "t", "w", "o", "=", "v">>,
     <<"t", "w", "o", ":", "x", "=", "v">>,
     <<"c", "_", "a", "=", "v">>,
     <<"o", "n", "e", ":", "c", "_", "a", "=", "v">>,
     <<"p", "r", "e", "f", "i", "x", "=", "v">>,
     <<"o", "n", "e", ":", "p", "r", "e", "f", "i", "x", "=", "v">>}

RECURSIVE SeqsUpTo(_, _)
SeqsUpTo(S, n) ==
    IF n = 0 THEN {<<>>}
    ELSE LET shorter == SeqsUpTo(S, n - 1)
         IN  shorter \cup {Append(q, x) : q \in {r \in shorter : Len(r) = n - 1}, x \in S}

CommandLines == SeqsUpTo(CommandLineOptions, MaxCmdLine)

\* the names an option file declares
DeclaredNames == {<<"f", "o", "o">>,
 <<"o", "n", "e">>,
 <<"p", "r", "e", "f", "i", "x">>}

OptionFiles == SeqsUpTo(DeclaredNames, MaxStatements)

\* the value an option() statement gives its option
DefaultValue == <<>>

NoOptionException == <<>>

\* o.split('=', 1)
split_key(o) == SubSeq(o, 1, find(o, "=") - 1)

split_value(o) == SubSeq(o, find(o, "=") + 1, Len(o))

\* the loop of __init__ from the i-th option on: the dict it fills, or the
\* exception it raises
RECURSIVE init_loop(_, _, _, _)
init_loop(subproject, command_line_options, i, acc) ==
    IF i > Len(command_line_options) THEN [raised |-> NoOptionException, dict |-> acc]
    ELSE LET o == command_line_options[i]
             sbprefix == subproject \o <<":">>
         IN  IF subproject # <<>> /\ ~startswith(o, sbprefix)
             THEN init_loop(subproject, command_line_options, i + 1, acc)
             ELSE IF find(o, "=") = 0
             THEN [raised |-> <<"must have a value separated by equals sign", o>>,
                   dict |-> acc]
             ELSE IF subproject = <<>> /\ find(split_key(o), ":") # 0
             THEN init_loop(subproject, command_line_options, i + 1, acc)
             ELSE init_loop(subproject, command_line_options, i + 1,
                            [k \in DOMAIN acc \cup {split_key(o)} |->
                                IF k = split_key(o) THEN split_value(o) ELSE acc[k]])

EmptyDict == [k \in {} |-> <<>>]

InitOptInterp ==
    /\ oi_pc = "none"
    /\ oi_subproject = <<>>
    /\ oi_command_line = <<>>
    /\ oi_cmd_line_options = EmptyDict
    /\ oi_options = EmptyDict
    /\ oi_warnings = <<>>
    /\ oi_err = NoOptionException

OptionInterpreter_init(subproject, command_line_options) ==
    LET r == init_loop(subproject, command_line_options, 1, EmptyDict)
    IN  /\ oi_pc = "none"
        /\ oi_subproject' = subproject
        /\ oi_command_line' = command_line_options
        /\ oi_options' = EmptyDict
        /\ oi_warnings' = <<>>
        /\ oi_err' = r.raised
        /\ oi_cmd_line_options' = r.dict
        /\ oi_pc' = IF r.raised = NoOptionException THEN "constructed" ELSE "raised"
        /\ UNCHANGED not_optinterp

\* the key an option() statement stores its option under
opt_key(subproject, name) ==
    IF subproject # <<>> THEN subproject \o <<":">> \o name ELSE name

\* the statements of the option file from the i-th on
RECURSIVE statements_loop(_, _, _)
statements_loop(option_file, i, acc) ==
    IF i > Len(option_file) THEN [raised |-> NoOptionException, dict |-> acc]
    ELSE LET name == option_file[i]
             opt_name == opt_key(oi_subproject, name)
         IN  IF is_invalid_name(name)
             THEN [raised |-> <<"Option name is reserved.", name>>, dict |-> acc]
             ELSE statements_loop(option_file, i + 1,
                      [k \in DOMAIN acc \cup {opt_name} |->
                          IF k = opt_name
                          THEN (IF opt_name \in DOMAIN oi_cmd_line_options
                                THEN oi_cmd_line_options[opt_name]
                                ELSE DefaultValue)
                          ELSE acc[k]])

\* get_bad_options without the subproj_len it slices the option with
is_bad_option_unsliced(opts, subproject, option) ==
    /\ option \notin DOMAIN opts \cup forbidden_option_names
    /\ ~\E p \in forbidden_prefixes : startswith(option, p)

\* whether the loop of get_bad_options appends the option
is_bad_option(opts, subproject, option) ==
    LET subproj_len == IF Len(subproject) > 0 THEN Len(subproject) + 1 ELSE 0
    IN  /\ option \notin DOMAIN opts \cup forbidden_option_names
        /\ ~\E p \in forbidden_prefixes :
               startswith(SubSeq(option, subproj_len + 1, Len(option)), p)

get_bad_options(opts, subproject, cmd_opts) ==
    SelectSeq(sorted(DOMAIN cmd_opts), LAMBDA option : is_bad_option(opts, subproject, option))

\* mlog.warning of check_for_bad_options: the subproject it names and the
\* options it joins
check_for_bad_options(opts, subproject, cmd_opts) ==
    LET bad == get_bad_options(opts, subproject, cmd_opts)
    IN  IF bad # <<>> THEN <<[sub |-> subproject, bad |-> bad]>> ELSE <<>>

process(option_file) ==
    /\ oi_pc = "constructed"
    /\ LET r == statements_loop(option_file, 1, oi_options)
       IN  /\ oi_options' = r.dict
           /\ oi_err' = r.raised
           /\ IF r.raised = NoOptionException
              THEN /\ oi_warnings' = oi_warnings \o
                         check_for_bad_options(r.dict, oi_subproject, oi_cmd_line_options)
                   /\ oi_pc' = "processed"
              ELSE /\ oi_warnings' = oi_warnings
                   /\ oi_pc' = "raised"
    /\ UNCHANGED <<oi_subproject, oi_command_line, oi_cmd_line_options>>
    /\ UNCHANGED not_optinterp

NextOptInterp ==
    \/ \E subproject \in InterpSubprojects, command_line_options \in CommandLines :
           OptionInterpreter_init(subproject, command_line_options)
    \/ \E option_file \in OptionFiles : process(option_file)

\* ------------------------------------------------------------------------
\* Object extraction (src/interpreter.py, Interpreter.method_call and
\* Interpreter.validate_extraction). A subdir is the string the interpreter
\* holds, a sequence of characters.
\* ------------------------------------------------------------------------
\* Interpreter.subproject_dir, as the characters of the string
subproject_dir_str == <<"s", "u", "b", "p", "r", "o", "j", "e", "c", "t", "s">>

\* the directories of the source tree a build file or a target can be in
ExtractionSubdirs ==
    {<<>>,
     <<"d">>,
     <<"d", "/", "e">>,
     <<"s", "u", "b", "p", "r", "o", "j", "e", "c", "t", "s", "/", "a">>,
     <<"s", "u", "b", "p", "r", "o", "j", "e", "c", "t", "s", "/", "a", "/", "d">>,
     <<"s", "u", "b", "p", "r", "o", "j", "e", "c", "t", "s", "/", "b">>,
     <<"s", "u", "b", "p", "r", "o", "j", "e", "c", "t", "s", "/", "b", "/", "d">>,
     <<"s", "u", "b", "p", "r", "o", "j", "e", "c", "t", "s", "2">>,
     <<"s", "u", "b", "p", "r", "o", "j", "e", "c", "t", "s", "2", "/", "a">>,
     <<"d", "/", "s", "u", "b", "p", "r", "o", "j", "e", "c", "t", "s">>,
     <<"s", "u", "b", "/", "a">>}

\* str.split('/')
RECURSIVE split_slash(_)
split_slash(str0) ==
    IF find(str0, "/") = 0 THEN <<str0>>
    ELSE <<SubSeq(str0, 1, find(str0, "/") - 1)>>
             \o split_slash(SubSeq(str0, find(str0, "/") + 1, Len(str0)))

NotExtracted == "not called"
Extracted == "extracted"

\* Interpreter.validate_extraction: the exception it raises, or Extracted
validate_extraction(subdir, buildtarget_subdir) ==
    IF ~startswith(subdir, subproject_dir_str)
    THEN IF startswith(buildtarget_subdir, subproject_dir_str)
         THEN "Tried to extract objects from a subproject target."
         ELSE Extracted
    ELSE IF ~startswith(buildtarget_subdir, subproject_dir_str)
    THEN "Tried to extract objects from the main project from a subproject."
    ELSE IF Len(split_slash(subdir)) < 2 \/ Len(split_slash(buildtarget_subdir)) < 2
    THEN "IndexError"
    ELSE IF split_slash(subdir)[2] # split_slash(buildtarget_subdir)[2]
    THEN "Tried to extract objects from a different subproject."
    ELSE Extracted

InitExtract ==
    /\ ex_subdir = <<>>
    /\ ex_target_subdir = <<>>
    /\ ex_unity = FALSE
    /\ ex_result = NotExtracted

\* Interpreter.method_call for extract_objects on a build target
method_call_extract_objects(unity, subdir, buildtarget_subdir) ==
    /\ ex_subdir' = subdir
    /\ ex_target_subdir' = buildtarget_subdir
    /\ ex_unity' = unity
    /\ ex_result' = IF unity
                    THEN "Single object files can not be extracted in Unity builds."
                    ELSE validate_extraction(subdir, buildtarget_subdir)
    /\ UNCHANGED not_extract

NextExtract ==
    \E unity \in BOOLEAN, subdir \in ExtractionSubdirs, buildtarget_subdir \in ExtractionSubdirs :
        method_call_extract_objects(unity, subdir, buildtarget_subdir)

\* ------------------------------------------------------------------------
\* The cross file (src/environment.py, CrossBuildInfo)
\* ------------------------------------------------------------------------
SectionNames == {"binaries", "properties", "host_machine", "target_machine"}

\* what a section of the file holds: no entry, entries with str, int or bool
\* values, an entry with a list value, an entry whose value does not evaluate
SectionContents == {"empty", "scalars", "list", "malformed"}

\* the cross files: for each section the file has, what it holds
CrossFiles == UNION {[secs -> SectionContents] : secs \in SUBSET SectionNames}

NoCrossFile == [s \in {} |-> "empty"]

\* CrossBuildInfo.parse_datafile for one section: the exception its entries
\* raise ('varname' is not defined where the EnvironmentException is built,
\* and there is no self.items to store a list in), or "none"
section_err(content) ==
    IF content = "malformed" THEN "NameError"
    ELSE IF content = "list" THEN "AttributeError"
    ELSE "none"

InitCross ==
    /\ cross_file = NoCrossFile
    /\ cross_config = {}
    /\ cross_result = "not constructed"

\* CrossBuildInfo.__init__ lines 592-600, the checks after parse_datafile
check_sections(config) ==
    IF "target_machine" \in config THEN "constructed"
    ELSE IF "host_machine" \notin config
    THEN "Cross info file must have either host or a target machine."
    ELSE IF "properties" \notin config THEN "Cross file is missing \"properties\"."
    ELSE IF "binaries" \notin config THEN "Cross file is missing \"binaries\"."
    ELSE "constructed"

\* CrossBuildInfo.__init__ on a file whose first failing section, in the
\* order of the file, is bad (no section fails when bad is "none")
CrossBuildInfo_init(file, bad) ==
    /\ \/ bad = "none" /\ \A s \in DOMAIN file : section_err(file[s]) = "none"
       \/ bad \in DOMAIN file /\ section_err(file[bad]) # "none"
    /\ cross_file' = file
    /\ IF bad = "none"
       THEN /\ cross_config' = DOMAIN file
            /\ cross_result' = check_sections(DOMAIN file)
       ELSE /\ cross_config' \in
                  {c \in SUBSET (DOMAIN file) :
                      bad \in c /\ \A s \in c \ {bad} : section_err(file[s]) = "none"}
            /\ cross_result' = section_err(file[bad])
    /\ UNCHANGED not_cross

NextCross ==
    \E file \in CrossFiles, bad \in SectionNames \cup {"none"} : CrossBuildInfo_init(file, bad)

\* ------------------------------------------------------------------------
\* Compiler detection (src/interpreter.py, Interpreter.add_languages, and
\* src/environment.py, Environment.detect_*_compiler)
\* ------------------------------------------------------------------------
\* the languages project() and add_languages() are given
LanguageArgs == {"c", "C", "cpp", "fortran", "java", "klingon"}

\* the languages with a detect_<lang>_compiler that takes want_cross
CrossDetected == {"c", "cpp", "fortran"}

\* the languages whose one compiler also serves as the cross compiler
PlatformIndependent == {"java"}

LanguageLists == SeqsUpTo(LanguageArgs, MaxLanguages)

\* lang.lower()
lang_lower(lang) == IF lang = "C" THEN "c" ELSE lang

\* the (language, is_cross) pairs a compiler can be detected for
Probes == (CrossDetected \X BOOLEAN) \cup (PlatformIndependent \X {FALSE})

\* what can go wrong in one add_languages call: nothing, the detection of
\* one probe, or the sanity check of one language's compiler
Failures ==
    {<<"none">>} \cup {<<"detect", p>> : p \in Probes}
        \cup {<<"sanity_check", l>> : l \in CrossDetected \cup PlatformIndependent}

\* the compiler object the n-th detection of a probe returns
Compiler(lang, want_cross, n) ==
    [language |-> lang, is_cross |-> want_cross, detection |-> n]

\* the state add_languages works on
LangState(comps, cross_comps, reqs, dets, build_comps, e) ==
    [compilers |-> comps, cross_compilers |-> cross_comps, requests |-> reqs,
     detections |-> dets, build_compilers |-> build_comps, err |-> e]

\* a lookup in coredata.compilers that never finds the language
is_detected_never(comps, lang) == FALSE

\* add_languages line 1272: lang in self.coredata.compilers
is_detected(comps, lang) == lang \in DOMAIN comps

\* self.environment.detect_<lang>_compiler(want_cross), counted
detect(st, lang, want_cross, failure) ==
    LET n == st.detections[<<lang, want_cross>>] + 1
        counted == [st EXCEPT !.detections[<<lang, want_cross>>] = n]
    IN IF failure = <<"detect", <<lang, want_cross>>>>
       THEN [counted EXCEPT !.err = "EnvironmentException: Unknown compiler(s)"]
       ELSE counted

\* one iteration of the loop of add_languages
add_language(st0, need_cross, lang0, failure) ==
    LET lang == lang_lower(lang0)
        st == IF lang \in DOMAIN st0.requests
              THEN [st0 EXCEPT !.requests[lang] = @ + 1] ELSE st0
    IN IF is_detected(st.compilers, lang)
       THEN [st EXCEPT !.build_compilers = @ \cup {st.compilers[lang]}]
       ELSE IF lang \notin CrossDetected \cup PlatformIndependent
       THEN [st EXCEPT !.err = "InvalidCode: Tried to use unknown language"]
       ELSE LET st1 == detect(st, lang, FALSE, failure)
                comp == Compiler(lang, FALSE, st1.detections[<<lang, FALSE>>])
                st2 == IF st1.err = "none" /\ need_cross /\ lang \in CrossDetected
                       THEN detect(st1, lang, TRUE, failure)
                       ELSE st1
                cross_comp == IF lang \in CrossDetected
                              THEN Compiler(lang, TRUE, st2.detections[<<lang, TRUE>>])
                              ELSE comp
            IN IF st2.err # "none" THEN st2
               ELSE IF failure = <<"sanity_check", lang>>
               THEN [st2 EXCEPT !.err = "EnvironmentException: sanity check failed"]
               ELSE [st2 EXCEPT
                       !.compilers = Insert(@, lang, comp),
                       !.cross_compilers = IF need_cross THEN Insert(@, lang, cross_comp) ELSE @,
                       !.build_compilers = @ \cup {comp}]

RECURSIVE add_languages_loop(_, _, _, _)
add_languages_loop(st, need_cross, args, failure) ==
    IF args = <<>> \/ st.err # "none" THEN st
    ELSE add_languages_loop(add_language(st, need_cross, args[1], failure),
                            need_cross, Tail(args), failure)

NoDetections == [p \in Probes |-> 0]
NoRequests == [l \in CrossDetected \cup PlatformIndependent |-> 0]

InitLanguages ==
    /\ need_cross_compiler = FALSE
    /\ compilers = <<>>
    /\ cross_compilers = <<>>
    /\ requests = NoRequests
    /\ detections = NoDetections
    /\ build_compilers = {}
    /\ lang_err = "none"

\* the start of a configure run: the environment is a cross build that needs
\* a cross compiler, or is not
Environment_init(need_cross) ==
    /\ need_cross_compiler' = need_cross
    /\ compilers' = <<>>
    /\ cross_compilers' = <<>>
    /\ requests' = NoRequests
    /\ detections' = NoDetections
    /\ build_compilers' = {}
    /\ lang_err' = "none"
    /\ UNCHANGED not_languages

\* Interpreter.add_languages, as func_project and func_add_languages of the
\* root interpreter and of every subproject's interpreter call it
add_languages(args, failure) ==
    /\ lang_err = "none"
    /\ \A l \in DOMAIN requests : requests[l] < MaxRequests
    /\ LET st == add_languages_loop(
                     LangState(compilers, cross_compilers, requests, detections,
                               build_compilers, "none"),
                     need_cross_compiler, args, failure)
       IN /\ compilers' = st.compilers
          /\ cross_compilers' = st.cross_compilers
          /\ requests' = st.requests
          /\ detections' = st.detections
          /\ build_compilers' = st.build_compilers
          /\ lang_err' = st.err
    /\ UNCHANGED need_cross_compiler
    /\ UNCHANGED not_languages

NextLanguages ==
    \/ \E need_cross \in BOOLEAN : Environment_init(need_cross)
    \/ \E args \in LanguageLists, failure \in Failures : add_languages(args, failure)

\* ------------------------------------------------------------------------
\* Writing a configured file (src/mesonlib.py, do_conf_file and
\* replace_if_different). A file is the sequence of its lines, or Missing.
\* ------------------------------------------------------------------------
ConfLines == {"a", "b"}

FileContents == SeqsUpTo(ConfLines, MaxLines)

Missing == <<"no such file">>

\* a comparison that never finds the two files equal
same_content_never(old, new) == FALSE

\* replace_if_different line 243: open(dst).read() == open(dst_tmp).read()
same_content(old, new) == old = new

InitConfFile ==
    /\ cf_pc = "idle"
    /\ cf_dst = Missing
    /\ cf_dst_tmp = Missing
    /\ cf_result = <<>>
    /\ cf_dst0 = Missing
    /\ cf_replaced = FALSE

\* do_conf_file lines 224-231: the lines are generated, no file is touched
do_conf_file(result) ==
    /\ cf_pc \in {"idle", "done", "aborted"}
    /\ cf_pc' = "generated"
    /\ cf_result' = result
    /\ cf_dst0' = cf_dst
    /\ cf_replaced' = FALSE
    /\ UNCHANGED <<cf_dst, cf_dst_tmp>>
    /\ UNCHANGED not_conffile

\* line 233: open(dst_tmp, 'w') creates or truncates dst~
open_dst_tmp ==
    /\ cf_pc = "generated"
    /\ cf_pc' = "writing"
    /\ cf_dst_tmp' = <<>>
    /\ UNCHANGED <<cf_dst, cf_result, cf_dst0, cf_replaced>>
    /\ UNCHANGED not_conffile

\* line 233: writelines(result), one line reaching the file at a time
writelines ==
    /\ cf_pc = "writing"
    /\ Len(cf_dst_tmp) < Len(cf_result)
    /\ cf_dst_tmp' = Append(cf_dst_tmp, cf_result[Len(cf_dst_tmp) + 1])
    /\ UNCHANGED <<cf_pc, cf_dst, cf_result, cf_dst0, cf_replaced>>
    /\ UNCHANGED not_conffile

\* line 234: shutil.copymode(src, dst_tmp), once everything is written
copymode ==
    /\ cf_pc = "writing"
    /\ cf_dst_tmp = cf_result
    /\ cf_pc' = "written"
    /\ UNCHANGED <<cf_dst, cf_dst_tmp, cf_result, cf_dst0, cf_replaced>>
    /\ UNCHANGED not_conffile

\* replace_if_different lines 242-246: the comparison, FileNotFoundError
\* when there is no dst
replace_if_different ==
    /\ cf_pc = "written"
    /\ cf_pc' = IF cf_dst # Missing /\ same_content(cf_dst, cf_dst_tmp)
                THEN "identical" ELSE "different"
    /\ UNCHANGED <<cf_dst, cf_dst_tmp, cf_result, cf_dst0, cf_replaced>>
    /\ UNCHANGED not_conffile

\* line 244: os.unlink(dst_tmp)
unlink_dst_tmp ==
    /\ cf_pc = "identical"
    /\ cf_pc' = "done"
    /\ cf_dst_tmp' = Missing
    /\ UNCHANGED <<cf_dst, cf_result, cf_dst0, cf_replaced>>
    /\ UNCHANGED not_conffile

\* line 248: os.replace(dst_tmp, dst)
replace_dst ==
    /\ cf_pc = "different"
    /\ cf_pc' = "done"
    /\ cf_dst' = cf_dst_tmp
    /\ cf_dst_tmp' = Missing
    /\ cf_replaced' = TRUE
    /\ UNCHANGED <<cf_result, cf_dst0>>
    /\ UNCHANGED not_conffile

\* the process is killed between two file operations
abort_conf_file ==
    /\ cf_pc \in {"generated", "writing", "written", "identical", "different"}
    /\ cf_pc' = "aborted"
    /\ UNCHANGED <<cf_dst, cf_dst_tmp, cf_result, cf_dst0, cf_replaced>>
    /\ UNCHANGED not_conffile

NextConfFile ==
    \/ \E result \in FileContents : do_conf_file(result)
    \/ open_dst_tmp
    \/ writelines
    \/ copymode
    \/ replace_if_different
    \/ unlink_dst_tmp
    \/ replace_dst
    \/ abort_conf_file

\* ------------------------------------------------------------------------
\* The command of a custom target (src/mesonbuild/backend/backends.py,
\* Backend.eval_custom_target_command). An argument is a string, the
\* sequence of its characters; "PRIVATE_OUTDIR_" and "INPUT" stand for the
\* characters of these words.
\* ------------------------------------------------------------------------
ArgChars == {"x", "/", "\\", "@", "PRIVATE_OUTDIR_"}

\* whether a string holds an @...@ marker: two '@' with text between them
has_marker(str0) == Cardinality({k \in 1..Len(str0) : str0[k] = "@"}) >= 2

\* the string arguments without a marker
MarkerFreeArgs == {a \in SeqsUpTo(ArgChars, MaxArgLen) : ~has_marker(a)}

\* target.command: lists of such arguments
MarkerFreeCommands == SeqsUpTo(MarkerFreeArgs, MaxCmdArgs)

\* sub in str0
contains(str0, sub) ==
    \E k \in 0..(Len(str0) - Len(sub)) : SubSeq(str0, k + 1, k + Len(sub)) = sub

\* the keys of mesonlib.get_filenames_templates_dict(inputs, outputs)
TemplateKeys == {<<"@", "INPUT", "@">>, <<"@", "OUTPUT", "@">>}

\* mesonlib.substitute_values for string arguments: an argument that holds a
\* key of values has it substituted, every other argument is kept
substitute_values(cmd, values) ==
    [k \in 1..Len(cmd) |->
        IF \E key \in values : contains(cmd[k], key) THEN <<"substituted">> ELSE cmd[k]]

\* i.replace('\\', '/')
replace_backslash(str0) == [k \in 1..Len(str0) |-> IF str0[k] = "\\" THEN "/" ELSE str0[k]]

\* the loop of lines 814-850 for a string argument without a marker: the
\* argument appended to cmd, or the exception raised ('@SOURCE_ROOT@',
\* '@BUILD_ROOT@' and '@DEPFILE@' need two '@'; the regular expression of
\* line 841 needs a closing '@')
eval_argument(i) ==
    IF contains(i, <<"@", "PRIVATE_OUTDIR_">>)
    THEN [err |-> "MesonException: invalid argument", arg |-> i]
    ELSE [err |-> "none", arg |-> i]

InitCustomTarget ==
    /\ ct_command = <<>>
    /\ ct_cmd = <<>>
    /\ ct_err = "not called"

\* Backend.eval_custom_target_command, for the returned cmd
eval_custom_target_command(command) ==
    /\ ct_command' = command
    /\ LET evaluated == [k \in 1..Len(command) |-> eval_argument(command[k])]
           failed == {k \in 1..Len(command) : evaluated[k].err # "none"}
           cmd == substitute_values([k \in 1..Len(command) |-> evaluated[k].arg],
                                    TemplateKeys)
       IN IF failed # {}
          THEN /\ ct_err' = evaluated[CHOOSE k \in failed : \A j \in failed : k <= j].err
               /\ ct_cmd' = <<>>
          ELSE /\ ct_err' = "none"
               /\ ct_cmd' = [k \in 1..Len(cmd) |-> replace_backslash(cmd[k])]
    /\ UNCHANGED not_customtarget

NextCustomTarget ==
    \E command \in MarkerFreeCommands : eval_custom_target_command(command)

\* ------------------------------------------------------------------------
\* Addition (src/interpreter.py, Interpreter.evaluate_arithmeticstatement).
\* The operands are what to_native returns: Python values.
\* ------------------------------------------------------------------------
\* Python values: int, bool, str (its characters), list (its items) and the
\* interpreter objects, which define no addition
PyInt(n) == [t |-> "int", n |-> n, s |-> <<>>, items |-> <<>>]
PyBool(b) == [t |-> "bool", n |-> IF b THEN 1 ELSE 0, s |-> <<>>, items |-> <<>>]
PyStr(s) == [t |-> "str", n |-> 0, s |-> s, items |-> <<>>]
PyList(items) == [t |-> "list", n |-> 0, s |-> <<>>, items |-> items]
PyObject == [t |-> "object", n |-> 0, s |-> <<>>, items |-> <<>>]
InvalidCodeAddition == [t |-> "InvalidCode", n |-> 0, s |-> <<>>, items |-> <<>>]
NotEvaluated == [t |-> "not evaluated", n |-> 0, s |-> <<>>, items |-> <<>>]

Scalars ==
    {PyInt(0), PyInt(1), PyBool(TRUE), PyBool(FALSE), PyStr(<<>>), PyStr(<<"a">>)}

Operands ==
    Scalars \cup {PyObject, PyList(<<>>), PyList(<<PyInt(1)>>), PyList(<<PyStr(<<"a">>)>>)}

\* Python's l + r: bool is a subclass of int and adds as 0 or 1; a list adds
\* to a list only; TypeError is reported as InvalidCode (lines 2008-2011)
add(l, r) ==
    IF l.t \in {"int", "bool"} /\ r.t \in {"int", "bool"} THEN PyInt(l.n + r.n)
    ELSE IF l.t = "str" /\ r.t = "str" THEN PyStr(l.s \o r.s)
    ELSE IF l.t = "list" /\ r.t = "list" THEN PyList(l.items \o r.items)
    ELSE InvalidCodeAddition

InitArithmetic ==
    /\ ar_left = NotEvaluated
    /\ ar_right = NotEvaluated
    /\ ar_result = NotEvaluated

\* Interpreter.evaluate_arithmeticstatement for cur.operation == 'add'
evaluate_arithmeticstatement(l, r) ==
    /\ ar_left' = l
    /\ ar_right' = r
    /\ ar_result' = add(l, r)
    /\ UNCHANGED not_arithmetic

NextArithmetic ==
    \E l \in Operands, r \in Operands : evaluate_arithmeticstatement(l, r)

\* ------------------------------------------------------------------------
\* Substitution in configuration files (src/mesonlib.py, do_replacement).
\* A line is the sequence of its characters.
\* ------------------------------------------------------------------------
LineChars == {"@", "a", "b"}
ReplacementLines == SeqsUpTo(LineChars, MaxLineLen)

\* the values of a configuration data object: strings, integers, and values
\* of another type
StrVar(s) == [t |-> "str", s |-> s, n |-> 0]
IntVar(n) == [t |-> "int", s |-> <<>>, n |-> n]
OtherVar == [t |-> "other", s |-> <<>>, n |-> 0]
VarNames29 == {<<"a">>, <<"b">>}
VarValues ==
    {StrVar(s) : s \in {<<>>, <<"@", "a", "@">>, <<"@", "b", "@">>}}
    \cup {IntVar(1), OtherVar}
ReplacementData == UNION {[K -> VarValues] : K \in SUBSET VarNames29}

\* str() of an integer of one digit
Digits == <<"0", "1", "2", "3", "4", "5", "6", "7", "8", "9">>
str_of_int(n) == <<Digits[n + 1]>>

NoMatch == [found |-> FALSE, varname |-> <<>>]
Match(varname) == [found |-> TRUE, varname |-> varname]

\* re.search('@(.*?)@', line): the leftmost '@' with the nearest '@' after it
re_search(line) ==
    LET i == find(line, "@")
        rest == SubSeq(line, i + 1, Len(line))
        j == find(rest, "@")
    IN IF i = 0 \/ j = 0 THEN NoMatch ELSE Match(SubSeq(rest, 1, j - 1))

\* str.replace(old, new) for a non-empty old: every occurrence, left to right,
\* never looking into what it has put in
RECURSIVE str_replace(_, _, _)
str_replace(str0, old, new) ==
    IF Len(str0) < Len(old) THEN str0
    ELSE IF startswith(str0, old)
    THEN new \o str_replace(SubSeq(str0, Len(old) + 1, Len(str0)), old, new)
    ELSE <<Head(str0)>> \o str_replace(Tail(str0), old, new)

InitReplacement ==
    /\ dr_pc = "none"
    /\ dr_line = <<>>
    /\ dr_confdata = <<>>
    /\ dr_match = NoMatch

\* do_replacement up to its loop: match = re.search(regex, line)
do_replacement(line, confdata) ==
    /\ dr_pc \in {"none", "returned", "raised"}
    /\ dr_line' = line
    /\ dr_confdata' = confdata
    /\ dr_match' = re_search(line)
    /\ dr_pc' = "while"
    /\ UNCHANGED not_replacement

\* while match: ... return line
while_match ==
    /\ dr_pc = "while"
    /\ dr_pc' = IF dr_match.found THEN "body" ELSE "returned"
    /\ UNCHANGED <<dr_line, dr_confdata, dr_match>>
    /\ UNCHANGED not_replacement

\* the body of the loop: the value of varname, the replacement of every
\* '@varname@' of the line, and the next search from the start of the line
replace_match ==
    /\ dr_pc = "body"
    /\ LET varname == dr_match.varname
           known == varname \in DOMAIN dr_confdata
           var == IF ~known THEN <<>>
                  ELSE IF dr_confdata[varname].t = "int"
                       THEN str_of_int(dr_confdata[varname].n)
                       ELSE dr_confdata[varname].s
           line == str_replace(dr_line, <<"@">> \o varname \o <<"@">>, var)
       IN IF known /\ dr_confdata[varname].t = "other"
          THEN /\ dr_pc' = "raised"
               /\ UNCHANGED <<dr_line, dr_match>>
          ELSE /\ dr_line' = line
               /\ dr_match' = re_search(line)
               /\ dr_pc' = "while"
    /\ UNCHANGED dr_confdata
    /\ UNCHANGED not_replacement

NextReplacement ==
    \/ \E line \in ReplacementLines, confdata \in ReplacementData :
           do_replacement(line, confdata)
    \/ while_match
    \/ replace_match

\* ------------------------------------------------------------------------
\* The path of the build file subdir() opens (src/interpreter.py,
\* Interpreter.func_subdir). A path is the sequence of its characters;
\* 'meson.build' stands as one character.
\* ------------------------------------------------------------------------
SubdirChars == {"/", "d", "."}
SubdirStrings == SeqsUpTo(SubdirChars, MaxSubdirLen) \cup {subproject_dir_str}

\* environment.get_source_dir(), environment.build_dir, environment.build_filename
source_dir == <<"/", "s">>
build_dir == <<"/", "b">>
build_filename == <<"meson.build">>

\* what os.mkdir does: it makes the directory, finds it there, or fails
MkdirOutcomes == {"made", "FileExistsError", "OSError"}

\* os.path.join (posixpath) of two paths
os_path_join(a, b) ==
    IF isabs(b) THEN b
    ELSE IF a = <<>> \/ a[Len(a)] = "/" THEN a \o b
    ELSE a \o <<"/">> \o b

NoPath == <<"none">>

InitSubdirPath ==
    /\ sd_subdir = <<>>
    /\ sd_prev = <<>>
    /\ sd_visited = {}
    /\ sd_mkdir = NoPath
    /\ sd_opened = NoPath
    /\ sd_err = "none"

\* Interpreter.func_subdir up to the evaluation of the file it read; mkdir
\* and isfile are what the file system answers
func_subdir_path(arg, mkdir, isfile) ==
    /\ sd_err = "none"
    /\ Len(sd_prev) < MaxNesting
    /\ Cardinality(sd_visited) < MaxSubdirCalls
    /\ LET prev_subdir == sd_subdir
           subdir == os_path_join(prev_subdir, arg)
           buildfilename == os_path_join(subdir, build_filename)
           absname == os_path_join(source_dir, buildfilename)
       IN IF contains(arg, <<".", ".">>)
          THEN /\ sd_err' = "InvalidArguments"
               /\ UNCHANGED <<sd_subdir, sd_prev, sd_visited, sd_mkdir, sd_opened>>
          ELSE IF sd_subdir = <<>> /\ arg = subproject_dir_str
          THEN /\ sd_err' = "InvalidArguments"
               /\ UNCHANGED <<sd_subdir, sd_prev, sd_visited, sd_mkdir, sd_opened>>
          ELSE IF subdir \in sd_visited
          THEN /\ sd_err' = "InvalidArguments"
               /\ UNCHANGED <<sd_subdir, sd_prev, sd_visited, sd_mkdir, sd_opened>>
          ELSE /\ sd_visited' = sd_visited \cup {subdir}
               /\ sd_subdir' = subdir
               /\ sd_mkdir' = os_path_join(build_dir, subdir)
               /\ IF mkdir = "OSError"
                  THEN /\ sd_err' = "OSError"
                       /\ UNCHANGED <<sd_prev, sd_opened>>
                  ELSE IF ~isfile
                  THEN /\ sd_err' = "InterpreterException"
                       /\ UNCHANGED <<sd_prev, sd_opened>>
                  ELSE /\ sd_opened' = absname
                       /\ sd_prev' = Append(sd_prev, prev_subdir)
                       /\ sd_err' = "none"
    /\ UNCHANGED not_subdirpath

\* the end of func_subdir: self.subdir = prev_subdir
func_subdir_path_return ==
    /\ sd_err = "none"
    /\ sd_prev # <<>>
    /\ sd_subdir' = sd_prev[Len(sd_prev)]
    /\ sd_prev' = SubSeq(sd_prev, 1, Len(sd_prev) - 1)
    /\ UNCHANGED <<sd_visited, sd_mkdir, sd_opened, sd_err>>
    /\ UNCHANGED not_subdirpath

NextSubdirPath ==
    \/ \E arg \in SubdirStrings, mkdir \in MkdirOutcomes, isfile \in BOOLEAN :
           func_subdir_path(arg, mkdir, isfile)
    \/ func_subdir_path_return

Init ==
    /\ InitInterp /\ InitValues /\ InitWrap /\ InitGit /\ InitOptions /\ InitOptInterp
    /\ InitExtract /\ InitCross /\ InitLanguages /\ InitConfFile /\ InitCustomTarget
    /\ InitArithmetic /\ InitReplacement /\ InitSubdirPath

Next == NextInterp

Spec == Init /\ [][Next]_vars

SpecDirs == Init /\ [][NextDirs]_vars
SpecValues == Init /\ [][NextValues]_vars

SpecConf == Init /\ [][NextConf]_vars

SpecGit == Init /\ [][NextGit]_vars

SpecWrap == Init /\ [][NextWrap]_vars

SpecTopLevel == Init /\ [][NextTopLevel]_vars

SpecValueFor == Init /\ [][NextValueFor]_vars

SpecPrefix == Init /\ [][NextPrefix]_vars

SpecOptions == Init /\ [][NextOptions]_vars

SpecDeprecation == Init /\ [][NextDeprecation]_vars

SpecExtract == Init /\ [][NextExtract]_vars

SpecCross == Init /\ [][NextCross]_vars

SpecLanguages == Init /\ [][NextLanguages]_vars

SpecConfFile == Init /\ [][NextConfFile]_vars

SpecCustomTarget == Init /\ [][NextCustomTarget]_vars

SpecArithmetic == Init /\ [][NextArithmetic]_vars

SpecSubdirPath == Init /\ [][NextSubdirPath]_vars

\* the interpreter that runs do_replacement goes on to its next statement
SpecReplacement ==
    Init /\ [][NextReplacement]_vars /\ WF_vars(while_match) /\ WF_vars(replace_match)

SpecOptInterp == Init /\ [][NextOptInterp]_vars

\* ------------------------------------------------------------------------
\* Properties of the interpreter's project structure (checked under Spec)
\* ------------------------------------------------------------------------
FrozenMsg == "Tried to set global arguments after a build target has been declared"

\* a build target declared by the root project through build_target
RootDeclared ==
    \E k \in DOMAIN targets :
        /\ k = get_id(targets[k])
        /\ targets[k].type \in BuildTypes
        /\ targets[k].subproject = ""

C2_UniqueTargetIds ==
    \A k1 \in DOMAIN targets : \A k2 \in DOMAIN targets :
        k1 # k2 => get_id(targets[k1]) # get_id(targets[k2])

NoDuplicates(s) == \A i \in 1..Len(s) : \A j \in 1..Len(s) : i # j => s[i] # s[j]

\* C5 read without a condition on the caller's directory: subproject(name)
\* fails with "Recursive include of subprojects: <stack => name>" whenever
\* name is on the caller's stack.
C5_Original ==
    [][\A n \in SubprojectNames : \A r \in BOOLEAN :
          (func_subproject(n, r) /\ InSeq(n, Top.subproject_stack))
          => err' = RecursiveInclude(Top.subproject_stack \o <<n>>)]_vars

\* C5: a subproject(name) call made from the root directory of the
\* calling project fails with the recursive-include message whenever name is
\* on the caller's subproject_stack (a call from a directory entered through
\* subdir() fails earlier, with the root-directory message); no name appears
\* twice on any interpreter's subproject_stack, and the nesting depth of
\* subproject interpreters is at most the number of distinct subprojects.
C5_RecursionRejected ==
    /\ [][\A n \in SubprojectNames : \A r \in BOOLEAN :
             (func_subproject(n, r) /\ InSeq(n, Top.subproject_stack))
             => /\ err' # NoErr
                /\ frames' = frames
                /\ at_project_root(Top)
                   => err' = RecursiveInclude(Top.subproject_stack \o <<n>>)]_vars
    /\ [](\A i \in 1..Len(frames) :
             /\ NoDuplicates(frames[i].subproject_stack)
             /\ Len(frames[i].subproject_stack) = i - 1)
    /\ [](Len(frames) - 1 <= Cardinality(SubprojectNames))

C5_Witness ==
    /\ Len(frames) = 3
    /\ err = RecursiveInclude(<<"a", "b", "a">>)

\* ------------------------------------------------------------------------
\* Properties of configuration objects (checked under SpecConf) and of
\* variables (checked under SpecValues)
\* ------------------------------------------------------------------------

Observed(vs, h, name) ==
    [v |-> vs[name], elems |-> IF vs[name].t = "list" THEN h[vs[name].n] ELSE <<>>]

AssignsTo(name) ==
    \E x \in Exprs : \/ assignment(name, x)
                     \/ evaluate_plusassign(name, x)
                     \/ evaluate_foreach(name, x)
                     \/ func_set_variable(name, x)

\* C7: the value observed through a variable changes only by a statement
\* that assigns to that name; no other statement changes the length or the
\* elements of a list bound to it.
C7_VariablesImmutable ==
    [][\A name \in VarNames : (name \in DOMAIN variables /\ ~AssignsTo(name)) =>
          /\ name \in DOMAIN variables'
          /\ Observed(variables', heap', name) = Observed(variables, heap, name)]_vars

\* a statement that goes as far as binding the name: for a foreach loop the
\* items are a non-empty list
BindsByForeach(name, x) ==
    /\ evaluate_foreach(name, x)
    /\ EvalErr(x) = NoErr
    /\ EvalValue(x).t = "list"
    /\ EvalHeap(x)[EvalValue(x).n] # <<>>

BuiltinsIntact ==
    /\ DOMAIN variables \cap BuiltinNames = {}
    /\ \A name \in BuiltinNames : get_variable(name) = builtin[name]

\* the statement of C8 as the specification words it: every attempt to bind
\* a built-in name raises InvalidCode
C8_Original ==
    /\ [][\A name \in BuiltinNames, x \in Exprs :
              (\/ assignment(name, x)
               \/ evaluate_plusassign(name, x)
               \/ BindsByForeach(name, x)
               \/ func_set_variable(name, x)) => err'.kind = "InvalidCode"]_vars
    /\ []BuiltinsIntact

\* C8: no statement binds meson, host_machine, build_machine or
\* target_machine: =, a foreach loop variable and set_variable() raise
\* InvalidCode, += raises InvalidArguments because the built-in object is not
\* an array; variables never contains one of these names and reading one
\* returns the built-in object.
C8_BuiltinsNotShadowed ==
    /\ [][\A name \in BuiltinNames, x \in Exprs :
              /\ (assignment(name, x) \/ BindsByForeach(name, x) \/ func_set_variable(name, x))
                     => (err'.kind = "InvalidCode" /\ variables' = variables)
              /\ evaluate_plusassign(name, x)
                     => /\ err' # NoErr
                        /\ variables' = variables
                        /\ EvalErr(x) = NoErr =>
                               err' = Raise("InvalidArguments",
                                            "The += operator currently only works with arrays")]_vars
    /\ []BuiltinsIntact

C8_Witness ==
    /\ err = Overwrite("meson")
    /\ "a" \in DOMAIN variables
    /\ BuiltinsIntact

\* ------------------------------------------------------------------------
\* Properties of the wrap resolver (checked under SpecWrap)
\* ------------------------------------------------------------------------

\* C3: whenever extract_package unpacks the source archive, the bytes in the
\* package cache hash to the wrap's source_hash, on every path through
\* resolve, with the archive found in the cache or an earlier resolve
\* interrupted.
C3_UnpackedSourceVerified ==
    [][(extract_package /\ ~target_dir.exists) =>
           get_hash(files.source.data) = package.source_hash]_vars

HashMismatch ==
    \/ srcdata.got /\ get_hash(srcdata.data) # package.source_hash
    \/ pdata.got /\ get_hash(pdata.data) # package.patch_hash

\* C4: when the downloaded source or patch does not hash to the declared
\* hash, resolve raises with the package cache as it was when resolve
\* started, and nothing is extracted.
C4_MismatchRaisesBeforeWrite ==
    HashMismatch => /\ wpc = "raised"
                    /\ files = files0
                    /\ target_dir = target_dir0

C4_Witness ==
    /\ wpc = "raised"
    /\ package.has_patch
    /\ srcdata = Data(GoodSource)
    /\ pdata.got
    /\ get_hash(pdata.data) # package.patch_hash
    /\ files = [source |-> NoFile, patch |-> NoFile]

\* ------------------------------------------------------------------------
\* Properties of the option store (checked under SpecOptions)
\* ------------------------------------------------------------------------

\* C9: a value-setting operation of the option store either stores validated
\* values or raises with every option's stored value as it was before the
\* call.
C9_SetIsAllOrNothing ==
    [][/\ \A key \in LookupKeys, v \in OptionValues :
              (set_value(key, v) /\ oerr' # "none") => options' = options
       /\ \A n \in OptionNames, sp \in OptionSubprojects, v \in OptionValues :
              (set_option(n, sp, v) /\ oerr' # "none") => options' = options]_vars

\* C10: resolving a yielding project option of a subproject returns the root
\* project's option exactly when that option exists and has the same
\* concrete type; otherwise it returns the subproject's own option and
\* raises nothing.
C10_YieldingResolution ==
    [][\A key \in ProjectKeys :
           (/\ get_value_object_for(key)
            /\ key \in project_options
            /\ key \in DOMAIN options
            /\ options[key].yielding
            /\ key.subproject # "") =>
               LET parent_key == [key EXCEPT !.subproject = ""]
               IN IF parent_key \in DOMAIN options
                     /\ options[parent_key].type = options[key].type
                  THEN oerr' = "none" /\ oresult' = parent_key
                  ELSE oerr' = "none" /\ oresult' = key]_vars

C12_DirectoryEvaluatedOnce ==
    \A i \in 1..Len(frames) : \A d \in BuildFiles : frames[i].evaluated[d] <= 1

\* C13: a subproject() call succeeds only when the calling interpreter
\* stands in the root directory of its own project; made from a build file
\* entered through subdir() it raises.
C13_SubprojectOnlyAtRoot ==
    [][\A n \in SubprojectNames, r \in BOOLEAN :
          (func_subproject(n, r) /\ err' = NoErr) => Top.subdir = project_root(Top)]_vars

SecondCall == Raise("InvalidCode", "Second call to project()")

C15_FetchAndRetry ==
    gpc \in {"done", "raised"} =>
        \A i \in 1..Len(git_cmds) :
            (/\ git_cmds[i] = Cmd("checkout", FALSE)
             /\ \A j \in 1..(i - 1) : git_cmds[j].cmd # "checkout") =>
                /\ i < Len(git_cmds)
                /\ git_cmds[i + 1].cmd = "fetch"
                /\ git_cmds[i + 1].ok =>
                      (Len(git_cmds) = i + 2 /\ git_cmds[i + 2].cmd = "checkout")

Reserved == Raise("InvalidArguments", "Target name is reserved")

C17_CommandLineValueEffective ==
    [][/\ \A d \in OptDicts, c \in OptDicts, n \in OptDicts :
            \A ks \in DOMAIN c :
               (/\ set_from_top_level_project_call(d, c, n)
                /\ Len(ks) = 1
                /\ OptionKey(ks[1], "", "host") \in project_options) =>
                   LET key == OptionKey(ks[1], "", "host")
                   IN IF oerr' = "none"
                      THEN get_value_for_result(options', project_options', augments', key)
                              = Value(c[ks])
                      ELSE TRUE
       /\ \A key \in DeclaredKeys, valobj \in DeclaredObjects :
            (/\ add_project_option(key, valobj)
             /\ key.subproject = ""
             /\ key \notin DOMAIN options
             /\ <<key.name>> \in DOMAIN cmd_line_options) =>
                IF validate_value_ok(valobj, cmd_line_options[<<key.name>>])
                THEN oerr' = "none" =>
                        get_value_for_result(options', project_options', augments', key)
                           = Value(cmd_line_options[<<key.name>>])
                ELSE oerr' # "none"]_vars

\* C18: get_value_for leaves the registered options, their stored values,
\* the augments and the pending options as they were; for a key whose
\* string form has an augment it returns the augment, validated by the
\* option the lookup found, and a second call in the state it leaves
\* returns the same.
C18_GetValueForIsPure ==
    [][\A key \in ValueKeys :
          get_value_for(key) =>
              /\ <<options, project_options, augments, pending_project_options>>' =
                    <<options, project_options, augments, pending_project_options>>
              /\ get_value_for_result(options', project_options', augments', key) = ovalue'
              /\ (ovalue'.err = "none" /\ key.subproject # GlobalScope
                      /\ str(key) \in DOMAIN augments) =>
                    ovalue'.value = augments[str(key)]]_vars

\* the value returned for sub:new is its augment while the option found
\* still stores another value
C18_Witness ==
    LET key == OptionKey("new", "sub", "host")
    IN /\ ovalue = Value("b")
       /\ oerr = "none"
       /\ <<"sub", "new">> \in DOMAIN augments
       /\ augments[<<"sub", "new">>] = "b"
       /\ \A k \in DOMAIN options : options[k].value = "a"

\* an absolute path that ends in a separator only when it is a single root
WellFormedPrefix(path) ==
    /\ isabs(path)
    /\ endswith_sep(path) => (Len(path) = 1 \/ (Len(path) = 3 /\ path[2] = ":"))

\* C19: after a successful set of prefix through set_value or set_option
\* the stored prefix is absolute and ends in a separator only when it is a
\* single root; a prefix that is not absolute is rejected and the stored
\* one stays.
C19_PrefixSanitized ==
    [][\A v \in Prefixes :
          (\/ \E key \in PrefixKeys : set_value(key, v)
           \/ \E sp \in {GlobalScope, ""} : set_option("prefix", sp, v)) =>
              /\ oerr' = "none" =>
                    \A k \in DOMAIN options' :
                        k.name = "prefix" => WellFormedPrefix(options'[k].value)
              /\ ~isabs(expanduser(v)) => (oerr' # "none" /\ options' = options)]_vars

\* ------------------------------------------------------------------------
\* Properties of the option interpreter (checked under SpecOptInterp)
\* ------------------------------------------------------------------------
\* the scope a -D key names: the text before its colon, the root without one
scope_of(key) == IF find(key, ":") = 0 THEN <<>> ELSE SubSeq(key, 1, find(key, ":") - 1)

\* the option a -D key names inside its scope
name_of(key) == SubSeq(key, find(key, ":") + 1, Len(key))

\* the keys of the command line that belong to the interpreter's scope
InScopeKeys ==
    {key \in {split_key(oi_command_line[i]) : i \in 1..Len(oi_command_line)} :
        scope_of(key) = oi_subproject}

\* the in-scope keys that are no declared option and no built-in option name
\* and whose option name starts with no reserved prefix
UnknownKeys ==
    {key \in InScopeKeys :
        /\ key \notin DOMAIN oi_options
        /\ key \notin forbidden_option_names
        /\ ~\E p \in forbidden_prefixes : startswith(name_of(key), p)}

IsSortedListOf(bad, keys) ==
    /\ {bad[i] : i \in 1..Len(bad)} = keys
    /\ \A i \in 1..Len(bad), j \in 1..Len(bad) : i < j => str_lt(bad[i], bad[j])

\* C20: once process() has returned, no exception was raised, a declared
\* option holds a command-line value only if an in-scope -D option gave it,
\* and the unknown-option warning lists, in sorted order, exactly the
\* in-scope keys that are no declared option, no built-in option name, and
\* whose name inside the scope starts with no reserved prefix; there is no
\* warning when no such key exists.
C20_UnknownOptionsWarning ==
    oi_pc = "processed" =>
        /\ oi_err = NoOptionException
        /\ \A key \in DOMAIN oi_options :
               oi_options[key] # DefaultValue => key \in InScopeKeys
        /\ \A key \in InScopeKeys \cap DOMAIN oi_options :
               \E i \in 1..Len(oi_command_line) :
                   /\ split_key(oi_command_line[i]) = key
                   /\ oi_options[key] = split_value(oi_command_line[i])
        /\ IF UnknownKeys = {}
           THEN oi_warnings = <<>>
           ELSE /\ Len(oi_warnings) = 1
                /\ oi_warnings[1].sub = oi_subproject
                /\ IsSortedListOf(oi_warnings[1].bad, UnknownKeys)

\* a processed interpreter that warned about two or more keys and was given
\* an option of another scope
C20_Witness ==
    /\ oi_pc = "processed"
    /\ Len(oi_warnings) = 1
    /\ Len(oi_warnings[1].bad) >= 2
    /\ \E i \in 1..Len(oi_command_line) :
           /\ find(oi_command_line[i], "=") # 0
           /\ split_key(oi_command_line[i]) \notin InScopeKeys

\* ------------------------------------------------------------------------
\* Properties of the store's deprecation warnings (checked under
\* SpecDeprecation, where a key is the name of an option of the root project)
\* ------------------------------------------------------------------------
\* C21: a deprecation warning that names an option and a value is emitted at
\* most once, however often the option is set to that value.
C21_DeprecationOnce ==
    \A i \in 1..Len(deprecations), j \in 1..Len(deprecations) :
        (i < j /\ deprecations[i].value # "") => deprecations[i] # deprecations[j]

\* ------------------------------------------------------------------------
\* Properties of object extraction (checked under SpecExtract)
\* ------------------------------------------------------------------------
\* the project a directory belongs to: the subproject <subproject_dir>/<name>
\* it lies under, the root project (the empty name) otherwise
project_of(subdir) ==
    LET segs == split_slash(subdir)
    IN IF Len(segs) >= 2 /\ segs[1] = subproject_dir_str THEN segs[2] ELSE <<>>

\* C22: outside unity builds extract_objects goes through exactly when the
\* caller's subdir and the target's subdir belong to the same project, both in
\* the root project or both under the same <subproject_dir>/<name>.
C22_ExtractionWithinOneProject ==
    (ex_result # NotExtracted /\ ~ex_unity) =>
        (ex_result = Extracted <=> project_of(ex_subdir) = project_of(ex_target_subdir))

\* ------------------------------------------------------------------------
\* Properties of the cross file (checked under SpecCross)
\* ------------------------------------------------------------------------
\* C23: the cross-file record is constructed only if the file has a
\* host_machine or a target_machine section and has both a properties and a
\* binaries section.
C23_CrossFileSections ==
    cross_result = "constructed" =>
        /\ "host_machine" \in DOMAIN cross_file \/ "target_machine" \in DOMAIN cross_file
        /\ "properties" \in DOMAIN cross_file
        /\ "binaries" \in DOMAIN cross_file

\* ------------------------------------------------------------------------
\* Properties of compiler detection (checked under SpecLanguages)
\* ------------------------------------------------------------------------
\* C24: in one configure run the detection of a (language, is_cross) pair is
\* executed at most once, and every compiler handed to the build is the one
\* stored in coredata for its language.
C24_DetectedOnce ==
    /\ \A p \in Probes : detections[p] <= 1
    /\ \A comp \in build_compilers :
           /\ comp.language \in DOMAIN compilers
           /\ compilers[comp.language] = comp

\* a run in which a language was named again after its native and its cross
\* compiler had been detected
C24_Witness ==
    /\ need_cross_compiler
    /\ lang_err = "none"
    /\ requests["c"] >= 2
    /\ detections[<<"c", FALSE>>] = 1 /\ detections[<<"c", TRUE>>] = 1
    /\ compilers["c"] \in build_compilers

\* ------------------------------------------------------------------------
\* Properties of writing a configured file (checked under SpecConfFile)
\* ------------------------------------------------------------------------
\* C25: at every point of do_conf_file, an abort between two file operations
\* included, dst holds what it held when the call started or the complete
\* generated content; and a call whose generated content equals what dst
\* held does not replace dst.
C25_AtomicReplace ==
    cf_pc # "idle" =>
        /\ cf_dst \in {cf_dst0, cf_result}
        /\ cf_result = cf_dst0 => (~cf_replaced /\ cf_dst = cf_dst0)

\* an aborted call that left a partly written dst~ next to an existing dst
C25_Witness ==
    /\ cf_pc = "aborted"
    /\ cf_dst # Missing
    /\ cf_dst_tmp # Missing
    /\ Len(cf_dst_tmp) < Len(cf_result)
    /\ cf_dst # cf_result

\* ------------------------------------------------------------------------
\* Properties of the custom target command (checked under SpecCustomTarget,
\* whose commands are lists of strings without a marker)
\* ------------------------------------------------------------------------
\* C26: for a command whose arguments are strings without an @...@ marker,
\* eval_custom_target_command returns the argument list as it was given,
\* element for element.
C26_MarkerFreeCommandUnchanged ==
    ct_err # "not called" => (ct_err = "none" /\ ct_cmd = ct_command)

\* ------------------------------------------------------------------------
\* Properties of addition (checked under SpecArithmetic)
\* ------------------------------------------------------------------------
\* what the language's + is to yield for two operands
Sum(l, r) ==
    IF l.t = "list" /\ r.t = "list" THEN PyList(l.items \o r.items)
    ELSE IF l.t = "list" /\ r \in Scalars THEN PyList(Append(l.items, r))
    ELSE IF l.t = "int" /\ r.t = "int" THEN PyInt(l.n + r.n)
    ELSE IF l.t = "str" /\ r.t = "str" THEN PyStr(l.s \o r.s)
    ELSE InvalidCodeAddition

\* C27: + yields the concatenation for list+list, the list with the scalar
\* appended for list+scalar, the sum for int+int, the concatenation for
\* str+str, and raises InvalidCode for every other pair of operand types.
C27_AdditionRules ==
    ar_result # NotEvaluated => ar_result = Sum(ar_left, ar_right)

\* ------------------------------------------------------------------------
\* Build-machine keys in a native build (checked under SpecValueFor)
\* ------------------------------------------------------------------------
\* C28: in a store that is not cross-building, resolving the build-machine
\* key of an option name and subproject yields the same option object and
\* the same effective value, augment included, as resolving the
\* host-machine key of that name and subproject.
C28_BuildKeyResolvesAsHostKey ==
    ~is_cross =>
        \A key \in ValueKeys :
            LET host_key == [key EXCEPT !.machine = "host"]
            IN key.machine = "build" =>
                  /\ get_value_object_for_result(options, project_options, key)
                        = get_value_object_for_result(options, project_options, host_key)
                  /\ get_value_for_result(options, project_options, augments, key)
                        = get_value_for_result(options, project_options, augments, host_key)

\* ------------------------------------------------------------------------
\* Termination of do_replacement (checked under SpecReplacement)
\* ------------------------------------------------------------------------
\* C29: do_replacement terminates for every line and every configuration
\* data, also when a substituted value holds text of the form @name@: a call
\* that has reached its loop returns the line or raises.
C29_DoReplacementTerminates ==
    (dr_pc = "while") ~> (dr_pc \in {"returned", "raised"})

\* ------------------------------------------------------------------------
\* The build file of subdir() (checked under SpecSubdirPath)
\* ------------------------------------------------------------------------
\* C30: subdir() only reads a build file inside the source tree: for every
\* argument it accepts, an absolute path included, the file it opens is
\* meson.build in a directory beneath source_dir.
C30_BuildFileInSourceTree ==
    sd_opened # NoPath =>
        /\ startswith(sd_opened, source_dir \o <<"/">>)
        /\ ~contains(sd_opened, <<".", ".">>)
====
